---- MODULE Spec2Model ----
(***************************************************************************)
(* A model of the trading engine of src/src/strategy_manager.py            *)
(* (StrategyManager) together with the trend evaluator of                  *)
(* src/src/strategy/scalping_strategy.py (ScalpingStrategy).               *)
(*                                                                         *)
(* The engine runs two coroutines on one event loop: the scan loop         *)
(* (StrategyManager.start) and the monitor loop                            *)
(* (StrategyManager._monitor_positions_loop).  A coroutine runs without    *)
(* interruption from one await to the next, so every action below is the   *)
(* code of one coroutine from the point where an awaited call returns to   *)
(* the point where the next awaited call is made; the value the awaited    *)
(* call returned is the action's input, drawn with \E.                     *)
(*                                                                         *)
(* Conventions.                                                            *)
(*  - Python's None is NoneVal (-1) in a numeric field; a missing position *)
(*    is the record NoPosition (held = FALSE).                             *)
(*  - A gateway call that failed returns an empty dict: EmptyResult (-2).  *)
(*  - Time is an integer number of ticks of TickSeconds seconds; datetime  *)
(*    values are these integers.  Whether a datetime is offset-aware is    *)
(*    env.aware (see below).                                               *)
(*  - Fractions are compared exactly, by cross multiplication.             *)
(*  - sent and submitted are the messages handed to the notification       *)
(*    channel and the order handed to the gateway by the step that led to  *)
(*    the state; in the step in which a buy order returns, submitted holds *)
(*    the gateway's answer.  caught holds the places (boundary, symbol)    *)
(*    at which that step caught an exception.  haltReported is a history   *)
(*    variable.                                                            *)
(*  - evalTrend and evalRev are a ScalpingStrategy and a ReversalStrategy  *)
(*    called directly, as the tests call them; evalOut is the last call.   *)
(*  - update_queue, recent_pnl and current_params are the fields of an     *)
(*    OnlineLearner (src/src/learner/online_learner.py) used on its own;   *)
(*    suggested is what the last call of predict returned; predictCalls    *)
(*    and arrived are history variables.                                   *)
(*  - newDaySeen is a history variable of the environments in which a day  *)
(*    begins at a known tick.  highest_passed is a history variable of the *)
(*    environments with the field track: the prices the monitor loop       *)
(*    handed to the exit evaluation of each position.                      *)
(*  - ScalpingStrategy.update_indicators sets the 15-minute trend flag     *)
(*    only when it is handed a 15-minute series.  The engine's own refresh *)
(*    hands it the 1-minute series alone; UpdateIndicators15m is the call  *)
(*    with both series, made by the evaluator's environment.               *)
(*  - The engine as written neither opens a position (the trend flag is    *)
(*    never set) nor closes one (the exit evaluation raises).  Init, Next  *)
(*    and Spec are that engine.  The specifications SpecTrade and          *)
(*    SpecStreak explore the entry and exit paths of the code in an        *)
(*    environment that sets the trend flag and hands the evaluator         *)
(*    offset-aware entry times.                                            *)
(***************************************************************************)
EXTENDS Integers, Sequences, FiniteSets, TLC

\* ------------------------------------------------------------------ bounds
NSym == 2
MaxClock == 2
MaxFeedback == 3
MaxPredicts == 2
EvictFeedbacks == 60
LossCap == 6
\* The cap on concurrent positions in the specification whose cap is smaller
\* than the number of symbols (the engine's own cap is max_positions).
CapSlots == 1

\* ------------------------------------------------------- program constants
max_positions == 5
max_consecutive_losses == 5
daily_max_loss_pct_x100 == 2
CooldownSeconds == 300
MinNotional == 5050
DryRunKrw == 10000
DryRunAmount == 1
max_holding_minutes == 10
TickSeconds == 300

NoneVal == -1
EmptyResult == -2

Symbols == 1..NSym

\* What the collaborators can answer.  A specification fixes, in env, the
\* answers its environment gives; these are the widest sets.
\*   tickers:   fetch_ticker()['last'], or the empty dict after a failure;
\*              NoneVal is a ticker whose 'last' is None, given only by the
\*              environment in which every exit evaluation raises before it
\*              reads the price
\*   total_krw: total.KRW of a live fetch_balance, or the empty dict
\*   free_krw:  free.KRW of a live fetch_balance in the buy path
\*   free_coin: free.<coin> of a live fetch_balance in the sell path; NoneVal
\*              is an entry that holds None, on which line 271 raises
\*   orders:    create_order: TRUE for an accepted order, FALSE for the empty
\*              dict
\*   commands:  the text returned by TelegramNotifier.get_recent_command
\*   midnight:  whether now falls in the first ten seconds of a day
\*   market:    what _check_market_sentiment leaves in is_market_safe
\*   bars_ok:   the sets of symbols whose 1-minute series can come back with
\*              30 bars or more
\*   reports:   whether a status or daily report is due and can be built
\*   trend15:   is_15m_uptrend as computed from a 15-minute series
\*   dry_run:   the DRY_RUN setting
\*   aware:     whether the entry time of a position is an offset-aware
\*              datetime.  now_utc() (learner/utils.py, line 42) returns
\*              datetime.utcnow(), which is not, so in the engine as written
\*              aware is FALSE and every exit evaluation of a position raises;
\*              the sell path is explored with aware = TRUE.
\*   cap:       self.max_positions (line 32): 5 in the engine; CapSlots in
\*              the specification that explores a cap smaller than the
\*              number of symbols
\*   day_start: the tick in which a new day begins, NoneVal where the time of
\*              day of the ticks is left open
\*   outcomes:  only in the environments of the OnlineLearner: outcomes[n] is
\*              the set of pnl_pct values the n-th call of feedback can
\*              carry, in 1/10000; the engine is handed no learner
AllTickers == {990, 1000, 1010, EmptyResult}
AllTotalKrw == {980000, 1000000, EmptyResult}
AllFreeKrw == {20000, 1000000, EmptyResult}
AllFreeCoin == {0, 1, 100, EmptyResult, NoneVal}
AllCommands == {"", "pause", "resume", "report", "other"}
FullEnv ==
    [tickers |-> AllTickers, total_krw |-> AllTotalKrw,
     free_krw |-> AllFreeKrw, free_coin |-> AllFreeCoin, orders |-> BOOLEAN,
     commands |-> AllCommands, midnight |-> BOOLEAN, market |-> BOOLEAN,
     bars_ok |-> SUBSET Symbols, reports |-> BOOLEAN, trend15 |-> {0, 1},
     dry_run |-> BOOLEAN, aware |-> FALSE, cap |-> max_positions,
     day_start |-> NoneVal,
     outcomes |-> <<>>]

Max(a, b) == IF a >= b THEN a ELSE b
Min(a, b) == IF a <= b THEN a ELSE b

\* dict.get(key, 0) on a gateway result.
GetOrZero(r) == IF r = EmptyResult THEN 0 ELSE r

\* --------------------------------------------------- ScalpingStrategy state
\* The indicator snapshot a successful 1-minute refresh computes.
GoodSnapshot ==
    [rsi |-> 55, ma_5 |-> 1000, ma_20 |-> 990, volume_ratio_x10 |-> 15,
     vwap |-> 985, atr |-> 2]

NewStrategy ==
    [rsi |-> NoneVal, ma_5 |-> NoneVal, ma_20 |-> NoneVal,
     volume_ratio_x10 |-> 10, vwap |-> NoneVal, atr |-> NoneVal,
     is_15m_uptrend |-> FALSE,
     max_price |-> 0, is_trailing |-> FALSE, entry_atr |-> 0]

reset_trailing_state(st) ==
    [st EXCEPT !.max_price = 0, !.is_trailing = FALSE, !.entry_atr = 0]

\* A refresh that takes the trend flag from the 1-minute series when no
\* 15-minute series is handed over (sensitivity of C34).
update_indicators_trend_from_1m(st, ok1m, trend15) ==
    IF ~ok1m THEN st
    ELSE [st EXCEPT !.rsi = GoodSnapshot.rsi, !.ma_5 = GoodSnapshot.ma_5,
                    !.ma_20 = GoodSnapshot.ma_20,
                    !.volume_ratio_x10 = GoodSnapshot.volume_ratio_x10,
                    !.vwap = GoodSnapshot.vwap, !.atr = GoodSnapshot.atr,
                    !.is_15m_uptrend =
                        IF trend15 = NoneVal THEN TRUE ELSE trend15 = 1]

\* update_indicators(ohlcv_1m, ohlcv_15m): ok1m is "the 1-minute series has at
\* least 30 bars"; trend15 is NoneVal when no usable 15-minute series is
\* handed over, else the value computed for is_15m_uptrend.
update_indicators(st, ok1m, trend15) ==
    IF ~ok1m THEN st
    ELSE [st EXCEPT !.rsi = GoodSnapshot.rsi, !.ma_5 = GoodSnapshot.ma_5,
                    !.ma_20 = GoodSnapshot.ma_20,
                    !.volume_ratio_x10 = GoodSnapshot.volume_ratio_x10,
                    !.vwap = GoodSnapshot.vwap, !.atr = GoodSnapshot.atr,
                    !.is_15m_uptrend =
                        IF trend15 = NoneVal THEN st.is_15m_uptrend
                        ELSE trend15 = 1]

\* update_indicators on a 1-minute series whose last bars give the
\* oscillator value rsi and the volume ratio vr (times 10).
update_indicators_on(st, rsi, vr, trend15) ==
    [update_indicators(st, TRUE, trend15) EXCEPT !.rsi = rsi,
                                                 !.volume_ratio_x10 = vr]

\* check_signal: the entry decision.
check_signal(st, price) ==
    /\ st.rsi # NoneVal
    /\ st.vwap # NoneVal
    /\ st.is_15m_uptrend
    /\ price > st.vwap /\ st.ma_5 > st.ma_20
    /\ 45 < st.rsi /\ st.rsi < 65
    /\ st.volume_ratio_x10 > 13

\* check_signal, line 110: past the guard of line 104, a price of None raises
\* TypeError in the comparison with vwap.
check_signal_raises(st, price) ==
    /\ price = NoneVal
    /\ st.rsi # NoneVal
    /\ st.vwap # NoneVal
    /\ st.is_15m_uptrend

\* check_signal: the evaluator's state after the call.
check_signal_state(st, price) ==
    IF check_signal(st, price)
    THEN [reset_trailing_state(st) EXCEPT !.max_price = price,
                                          !.entry_atr = st.atr]
    ELSE st

\* net_pnl, dynamic_sl_pct, dynamic_tp_pct of check_exit_signal, each times
\* entry_price * 10000; dynamic_callback times entry_price * 100000.
NetE(entry_price, current_price) ==
    (current_price - entry_price) * 10000 - 10 * entry_price
SlE(st, entry_price) ==
    Max(20 * entry_price, Min(50 * entry_price, 15000 * st.entry_atr))
TpE(st, entry_price) ==
    Max(30 * entry_price, Min(80 * entry_price, 25000 * st.entry_atr))
CallbackE10(st, entry_price) ==
    Max(100 * entry_price, Min(300 * entry_price, 3 * TpE(st, entry_price)))

HoldingExceeded(entry_time, now) ==
    /\ entry_time # NoneVal
    /\ (now - entry_time) * TickSeconds >= max_holding_minutes * 60

\* check_exit_signal, line 128: now is offset-aware; subtracting an entry time
\* that is not raises TypeError.
SubtractionRaises(entry_time, aware) == entry_time # NoneVal /\ ~aware

\* check_exit_signal: the evaluator's state after the call.  The time limit
\* returns, and the TypeError is raised, before the state is touched.
check_exit_state(st, entry_price, current_price, entry_time, now, aware) ==
    IF SubtractionRaises(entry_time, aware) THEN st
    ELSE IF HoldingExceeded(entry_time, now) THEN st
    ELSE LET st1 == [st EXCEPT !.max_price = Max(st.max_price, current_price)]
             net == NetE(entry_price, current_price)
         IN  IF net <= -SlE(st, entry_price) THEN st1
             ELSE IF /\ st1.max_price * 20000
                          >= 20000 * entry_price + TpE(st, entry_price)
                     /\ net < 5 * entry_price
                  THEN st1
             ELSE [st1 EXCEPT !.is_trailing =
                       st.is_trailing \/ net >= TpE(st, entry_price)]

\* An evaluator that tests breakeven and trailing before the stop-loss
\* (sensitivity of C27).
check_exit_signal_stop_last(st, entry_price, current_price, entry_time, now, aware) ==
    LET st2 == [st EXCEPT !.max_price = Max(st.max_price, current_price),
                          !.is_trailing =
                              st.is_trailing
                              \/ NetE(entry_price, current_price)
                                    >= TpE(st, entry_price)]
        net == NetE(entry_price, current_price)
    IN  IF SubtractionRaises(entry_time, aware) THEN "raise"
        ELSE IF HoldingExceeded(entry_time, now) THEN "TL"
        ELSE IF /\ st2.max_price * 20000
                     >= 20000 * entry_price + TpE(st, entry_price)
                /\ net < 5 * entry_price
             THEN "BE"
        ELSE IF /\ st2.is_trailing
                /\ (st2.max_price - current_price) * entry_price * 100000
                     >= CallbackE10(st, entry_price) * st2.max_price
             THEN "TS"
        ELSE IF net <= -SlE(st, entry_price) THEN "SL"
        ELSE "none"

\* An evaluator without the trailing stop (sensitivity of C30).
check_exit_signal_no_trailing(st, entry_price, current_price, entry_time, now, aware) ==
    LET top == Max(st.max_price, current_price)
        net == NetE(entry_price, current_price)
    IN  IF SubtractionRaises(entry_time, aware) THEN "raise"
        ELSE IF HoldingExceeded(entry_time, now) THEN "TL"
        ELSE IF net <= -SlE(st, entry_price) THEN "SL"
        ELSE IF /\ top * 20000 >= 20000 * entry_price + TpE(st, entry_price)
                /\ net < 5 * entry_price
             THEN "BE"
        ELSE "none"

\* check_exit_signal: the exit reason, "none" for None, "raise" for the
\* TypeError.
check_exit_signal(st, entry_price, current_price, entry_time, now, aware) ==
    LET st2 == check_exit_state(st, entry_price, current_price, entry_time,
                                now, aware)
        net == NetE(entry_price, current_price)
    IN  IF SubtractionRaises(entry_time, aware) THEN "raise"
        ELSE IF HoldingExceeded(entry_time, now) THEN "TL"
        ELSE IF net <= -SlE(st, entry_price) THEN "SL"
        ELSE IF /\ st2.max_price * 20000
                     >= 20000 * entry_price + TpE(st, entry_price)
                /\ net < 5 * entry_price
             THEN "BE"
        ELSE IF /\ st2.is_trailing
                /\ (st2.max_price - current_price) * entry_price * 100000
                     >= CallbackE10(st, entry_price) * st2.max_price
             THEN "TS"
        ELSE "none"

\* ---------------------------------------------------- ReversalStrategy state
\* Percentages are fractions num / den.
NewReversal ==
    [rsi_threshold |-> 25,
     stop_loss_pct |-> [num |-> 7, den |-> 1000],
     take_profit_pct |-> [num |-> 15, den |-> 1000],
     bb_lower |-> NoneVal, bb_middle |-> NoneVal, rsi |-> NoneVal,
     prev_rsi |-> NoneVal, atr |-> NoneVal]

\* ReversalStrategy.update_indicators on a series of 30 bars or more whose
\* last bars give the oscillator value rsi.
rev_update_indicators(rv, rsi) ==
    [rv EXCEPT !.bb_middle = 1010, !.bb_lower = 1000, !.prev_rsi = 18,
               !.rsi = rsi, !.atr = 10]

\* ReversalStrategy.check_signal, lines 58-59: the oscillator bound in force;
\* override is NoneVal when no suggestion is passed.
rev_rsi_threshold(rv, override) ==
    IF override = NoneVal THEN rv.rsi_threshold ELSE override

\* An entry decision that does not ask for a rising oscillator (sensitivity
\* of C33).
rev_check_signal_no_hook(rv, price, override) ==
    /\ rv.bb_lower # NoneVal
    /\ rv.rsi # NoneVal
    /\ price * 1000 <= rv.bb_lower * 1002
    /\ rv.rsi <= rev_rsi_threshold(rv, override)

\* ReversalStrategy.check_signal: the entry decision.
rev_check_signal(rv, price, override) ==
    /\ rv.bb_lower # NoneVal
    /\ rv.rsi # NoneVal
    /\ price * 1000 <= rv.bb_lower * 1002
    /\ rv.rsi <= rev_rsi_threshold(rv, override)
    /\ rv.rsi > rv.prev_rsi

\* ReversalStrategy.check_signal, lines 66-69: the evaluator's state after
\* the call.
rev_check_signal_state(rv, price, override) ==
    IF rev_check_signal(rv, price, override) /\ rv.atr \notin {NoneVal, 0}
    THEN [rv EXCEPT
            !.take_profit_pct =
                IF 15 * rv.atr * 1000 >= 12 * 10 * price
                THEN [num |-> 15 * rv.atr, den |-> 10 * price]
                ELSE [num |-> 12, den |-> 1000],
            !.stop_loss_pct =
                IF 8 * rv.atr * 1000 >= 5 * 10 * price
                THEN [num |-> 8 * rv.atr, den |-> 10 * price]
                ELSE [num |-> 5, den |-> 1000]]
    ELSE rv

\* ReversalStrategy.check_exit_signal: net_pnl times 1000 * entry_price, and
\* the exit reason ("none" for None).  The REV_BE test of line 84 asks for
\* net_pnl >= 0.006 and net_pnl <= 0.003 at once.
RevNetE(entry_price, current_price) ==
    (current_price - entry_price) * 1000 - entry_price
rev_check_exit_signal(rv, entry_price, current_price) ==
    LET net == RevNetE(entry_price, current_price)
    IN  IF net * rv.take_profit_pct.den
              >= rv.take_profit_pct.num * 1000 * entry_price
        THEN "REV_TP"
        ELSE IF net * rv.stop_loss_pct.den
                   <= -rv.stop_loss_pct.num * 1000 * entry_price
        THEN "REV_SL"
        ELSE IF net >= 6 * entry_price /\ net <= 3 * entry_price
        THEN "REV_BE"
        ELSE IF /\ rv.bb_middle \notin {NoneVal, 0}
                /\ current_price >= rv.bb_middle
                /\ net > 2 * entry_price
        THEN "REV_BB_EXIT"
        ELSE "none"

\* ------------------------------------------------------------ OnlineLearner
\* TradeParams as integers: k in 1/100, stop_loss_pct and take_profit_pct in
\* 1/1000, volume_multiplier in 1/10.  Outcomes (pnl_pct) are in 1/10000.
\* OnlineLearner.__init__, lines 31-37.
InitialParams ==
    [k_x100 |-> 50, rsi_buy_threshold |-> 30, stop_loss_pct_x1000 |-> 5,
     take_profit_pct_x1000 |-> 15, volume_multiplier_x10 |-> 13]

RECURSIVE SumSeq(_)
SumSeq(w) == IF w = <<>> THEN 0 ELSE Head(w) + SumSeq(Tail(w))

IsProfit(p) == p > 0
IsLoss(p) == p <= 0
\* sum(profits) and abs(sum(losses)) of lines 62-63 and 69.
GrossProfit(w) == SumSeq(SelectSeq(w, IsProfit))
GrossLoss(w) == 0 - SumSeq(SelectSeq(w, IsLoss))

\* profit_factor (line 69) as a fraction; 2.0 when there is no loss or the
\* losses sum to zero.
ProfitFactor(w) ==
    IF SelectSeq(w, IsLoss) # <<>> /\ GrossLoss(w) # 0
    THEN [num |-> GrossProfit(w), den |-> GrossLoss(w)]
    ELSE [num |-> 2, den |-> 1]

\* expected_value (line 70) as a fraction of 1/10000:
\* win_rate * avg_profit is sum(profits) / len(window), and
\* (1 - win_rate) * avg_loss is abs(sum(losses)) / len(window), also when
\* one of the two lists is empty (avg_profit is then 0, and the 0.001 that
\* stands for avg_loss is multiplied by 1 - win_rate = 0).
ExpectedValue(w) == [num |-> GrossProfit(w) - GrossLoss(w), den |-> Len(w)]

\* Line 75: expected_value < 0 or profit_factor < 1.1.
TightenRegime(w) ==
    \/ ExpectedValue(w).num < 0
    \/ 10 * ProfitFactor(w).num < 11 * ProfitFactor(w).den

\* Line 84: profit_factor > 1.5 and expected_value > 0.002.
LoosenRegime(w) ==
    /\ 10 * ProfitFactor(w).num > 15 * ProfitFactor(w).den
    /\ ExpectedValue(w).num > 20 * ExpectedValue(w).den

TightenedDownward(cur) ==
    [cur EXCEPT !.k_x100 = Max(35, cur.k_x100 - 5),
                !.rsi_buy_threshold = Min(35, cur.rsi_buy_threshold + 2),
                !.volume_multiplier_x10 = Max(10, cur.volume_multiplier_x10 - 1)]

\* Lines 77-81.
Tightened(cur) ==
    [cur EXCEPT !.k_x100 = Min(85, cur.k_x100 + 5),
                !.rsi_buy_threshold = Max(20, cur.rsi_buy_threshold - 2),
                !.volume_multiplier_x10 = Min(18, cur.volume_multiplier_x10 + 1),
                !.stop_loss_pct_x1000 = Max(5, cur.stop_loss_pct_x1000 - 1)]

\* Lines 86-88.
Loosened(cur) ==
    [cur EXCEPT !.k_x100 = Max(35, cur.k_x100 - 3),
                !.rsi_buy_threshold = Min(35, cur.rsi_buy_threshold + 2),
                !.volume_multiplier_x10 = Max(15, cur.volume_multiplier_x10 - 2)]

\* OnlineLearner._adjust_params_based_on_performance on the window w with
\* current_params cur: what it returns.
adjust_params_based_on_performance(w, cur) ==
    IF w = <<>> THEN cur
    ELSE IF TightenRegime(w) THEN Tightened(cur)
    ELSE IF LoosenRegime(w) THEN Loosened(cur)
    ELSE cur

\* What a call of predict leaves in self.current_params: the adjustment is
\* made on new_params, the model_copy() of line 72, and the empty window
\* returns before anything is written.
params_after_predict_in_place(w, cur) ==
    adjust_params_based_on_performance(w, cur)
params_after_predict(w, cur) == cur

\* deque(maxlen = 50).append, lines 28 and 111.
recent_pnl_maxlen == 50
deque_append_unbounded(w, p) == Append(w, p)
deque_appendleft(w, p) == <<p>> \o w
deque_append(w, p) ==
    IF Len(w) >= recent_pnl_maxlen THEN Append(Tail(w), p) ELSE Append(w, p)

\* ------------------------------------------------------------------- state
VARIABLES
    is_running, is_paused, is_dry_run,
    start_of_day_balance, current_consecutive_losses, daily_pnl_pct,
    is_market_safe,
    position, last_sell_time, strategies,
    clock,
    scanPc, scanIdx, scanNow, scanTicker, scanActive,
    monPc, monIdx, monTicker, monExit,
    sent, submitted, caught, haltReported, newDaySeen, highest_passed,
    update_queue, recent_pnl, current_params, suggested, predictCalls,
    arrived,
    evalTrend, evalRev, evalOut,
    env

engineVars == <<is_running, is_paused, is_dry_run, start_of_day_balance,
                current_consecutive_losses, daily_pnl_pct, is_market_safe>>
symbolVars == <<position, last_sell_time, strategies>>
scanVars == <<scanPc, scanIdx, scanNow, scanTicker, scanActive>>
monVars == <<monPc, monIdx, monTicker, monExit>>
learnerVars == <<update_queue, recent_pnl, current_params, suggested,
                 predictCalls, arrived>>
\* No step of the engine writes these: no tuner is handed to StrategyManager,
\* the evaluators evalTrend and evalRev are called directly, not by the
\* engine, and the environment is fixed.
idleVars == <<learnerVars, evalTrend, evalRev, evalOut, env>>
vars == <<engineVars, symbolVars, clock, scanVars, monVars, sent, submitted,
          caught, haltReported, newDaySeen, highest_passed, idleVars>>

\* The exit evaluations of a position, kept in the environments that ask for
\* it (field track): the highest price passed to check_exit_signal by
\* _check_position_exit (line 178) since the position was recorded, 0 before
\* the first call.
NoPeak == 0
Tracking == "track" \in DOMAIN env
PeakAfterExitCheck(pk, price) == IF Tracking THEN Max(pk, price) ELSE pk

NoPosition ==
    [held |-> FALSE, entry_price |-> 0, strategy_type |-> "none",
     state |-> "none", entry_time |-> NoneVal]

NoOrder == <<"none", 0>>

\* evalOut: the last direct call of an evaluator, its price argument, its
\* ai_pred argument and what it returned.
NoCall == [call |-> "none", price |-> 0, ai |-> "absent", result |-> "none"]

\* suggested: the suggested_params of the Prediction the last step returned,
\* NoSuggestion after a step that is not a call of predict.  predictCalls:
\* the number of calls of predict since the last step of feedback or of the
\* training loop.  arrived: every outcome handed to feedback so far, in
\* order of arrival.
NoSuggestion == [k_x100 |-> NoneVal]

\* daily_pnl_pct as the fraction num / den.
ZeroPnl == [num |-> 0, den |-> 1]

\* StrategyManager.__init__ (and ExchangeConnector.__init__ for is_dry_run)
\* in the environment e.
Construct(e) ==
    /\ is_running = FALSE
    /\ is_paused = FALSE
    /\ is_dry_run \in e.dry_run
    /\ env = e
    /\ start_of_day_balance = 0
    /\ current_consecutive_losses = 0
    /\ daily_pnl_pct = ZeroPnl
    /\ is_market_safe = TRUE
    /\ position = [s \in Symbols |-> NoPosition]
    /\ last_sell_time = [s \in Symbols |-> NoneVal]
    /\ strategies = [s \in Symbols |-> NewStrategy]
    /\ clock = 0
    /\ scanPc = "idle" /\ scanIdx = 1 /\ scanNow = 0
    /\ scanTicker = EmptyResult /\ scanActive = 0
    /\ monPc = "off" /\ monIdx = 1 /\ monTicker = EmptyResult
    /\ monExit = "none"
    /\ sent = {} /\ submitted = NoOrder /\ caught = {}
    /\ haltReported = FALSE /\ newDaySeen = "no"
    /\ highest_passed = [s \in Symbols |-> NoPeak]
    /\ update_queue = <<>> /\ recent_pnl = <<>>
    /\ current_params = InitialParams /\ suggested = NoSuggestion
    /\ predictCalls = 0 /\ arrived = <<>>
    /\ evalTrend = NewStrategy /\ evalRev = NewReversal /\ evalOut = NoCall

Init == Construct(FullEnv)

\* ------------------------------------------------------------ the gateway
\* ExchangeConnector.fetch_balance, total.KRW: the fixed virtual balance in
\* dry-run mode, else what the venue reports or the empty dict.
\* Where the environment has an account (the field account: the KRW it held
\* when the engine was constructed, all of it free), a live fetch_balance
\* reports the KRW left in that account.  The only activity on such an
\* account is the engine's own accepted buy orders, one per open position,
\* each a market order for invest_krw of _execute_buy (lines 310-311) filled
\* at the ticker price; the coin bought is not KRW and the venue's
\* commission is left out.
HasAccount == "account" \in DOMAIN env
AccountInvest(krw, active) == (krw * 98) \div (100 * (env.cap - active))
RECURSIVE KrwAfterBuys(_, _, _)
KrwAfterBuys(krw, done, n) ==
    IF done >= n THEN krw
    ELSE KrwAfterBuys(krw - AccountInvest(krw, done), done + 1, n)
AccountKrw ==
    KrwAfterBuys(env.account, 0,
                 Cardinality({s \in Symbols : position[s].held}))
FetchTotalKrw ==
    IF is_dry_run THEN {DryRunKrw}
    ELSE IF HasAccount THEN {AccountKrw} ELSE env.total_krw
\* ExchangeConnector.fetch_balance, free.KRW.
FetchFreeKrw ==
    IF is_dry_run THEN {DryRunKrw}
    ELSE IF HasAccount THEN {AccountKrw} ELSE env.free_krw
\* ExchangeConnector.fetch_balance, free.<coin>: dry-run balances hold no coin.
FetchFreeCoin == IF is_dry_run THEN {EmptyResult} ELSE env.free_coin
\* ExchangeConnector.create_order: TRUE for an order the venue accepted (always
\* in dry-run mode), FALSE for the empty dict.
CreateOrderResults == IF is_dry_run THEN {TRUE} ELSE env.orders

\* ------------------------------------------------------- the risk governor
\* _init_daily_balance, line 63: whether the baseline is (re)set.
BaselineReset(total_krw) == start_of_day_balance = 0 \/ total_krw > 0

\* _init_daily_balance, after the balance fetch returned b.
init_daily_balance(b) ==
    LET total_krw == GetOrZero(b)
    IN  IF BaselineReset(total_krw)
        THEN /\ start_of_day_balance' = total_krw
             /\ current_consecutive_losses' = 0
             /\ daily_pnl_pct' = ZeroPnl
        ELSE UNCHANGED <<start_of_day_balance, current_consecutive_losses,
                         daily_pnl_pct>>

\* _check_account_safety, line 71: no baseline, no check.
NoBaseline == start_of_day_balance <= 0
\* _check_account_safety, line 75.
LossStreakBreach == current_consecutive_losses >= max_consecutive_losses
\* A faulty line 91 that lets a daily P&L of exactly -2% pass (sensitivity
\* of C36).
DailyLossBreachStrict(pnl) ==
    pnl.num * 100 < -daily_max_loss_pct_x100 * pnl.den
\* _check_account_safety, line 91, on daily_pnl_pct = num / den.
DailyLossBreach(pnl) == pnl.num * 100 <= -daily_max_loss_pct_x100 * pnl.den
\* Faulty lines 76 and 92 that announce every breach (sensitivity of C8).
HaltNeverFlagged == FALSE
\* _check_account_safety, lines 76 and 92: the halt is announced only when the
\* flag is not already set.
HaltAlreadyFlagged == is_paused
\* A faulty line 213 that ignores the paused flag (sensitivity of C4).
EntryBlockedUnlessPaused(paused, safe) == ~safe
\* start, line 213: the rest of the scan iteration is skipped.
EntryBlocked(paused, safe) == paused \/ ~safe

\* ------------------------------------------------------------ the commands
\* _process_commands, lines 144-148: the paused flag after a command.
PausedAfterCommand(c, paused) ==
    IF c = "pause" THEN TRUE ELSE IF c = "resume" THEN FALSE ELSE paused
\* A faulty line 150 that keeps the counter (sensitivity of C7).
LossesAfterCommandKept(c, n) == n
\* _process_commands, line 150: the loss counter after a command.
LossesAfterCommand(c, n) == IF c = "resume" THEN 0 ELSE n
\* _process_commands and _send_status_report: the messages sent.  A status
\* report is built from one ticker per open position and is dropped when a
\* ticker fetch fails (reportOk = FALSE).
CommandMessages(c, reportOk) ==
    IF c = "pause" THEN {"pause_ack"}
    ELSE IF c = "resume" THEN {"resume_ack"}
    ELSE IF c = "report" /\ reportOk THEN {"report"}
    ELSE {}

HaltMessages == {"halt_losses", "halt_daily"}
\* History: a halt message was sent since the paused flag was last clear.
HaltReportedAfter(paused, msgs) ==
    paused /\ (haltReported \/ msgs \cap HaltMessages # {})

\* ------------------------------------------------------------ the scan loop
NextScanPc(i) == IF i < NSym THEN "sym" ELSE "top"
NextScanIdx(i) == IF i < NSym THEN i + 1 ELSE 1

\* start(), lines 203 and 207: whether now, taken at the start of the
\* iteration, falls in the first ten seconds of a day.  Where the environment
\* has a day that begins at tick day_start, only an iteration that starts in
\* that tick can be inside those ten seconds.
\* newDaySeen records that start() was called on the new day ("at_start")
\* or that a scan iteration has already started on it ("by_scan").
OnNewDay(now) == env.day_start # NoneVal /\ now >= env.day_start
MidnightAnswers(now) ==
    IF env.day_start = NoneVal THEN env.midnight
    ELSE IF now = env.day_start THEN env.midnight
    ELSE {FALSE}

\* start(), lines 190-192: the running flag is set and the first balance fetch
\* is awaited.
Start ==
    /\ scanPc = "idle"
    /\ is_running' = TRUE
    /\ scanPc' = "init"
    /\ newDaySeen' = IF OnNewDay(clock) THEN "at_start" ELSE "no"
    /\ sent' = {} /\ submitted' = NoOrder
    /\ UNCHANGED <<is_paused, is_dry_run, start_of_day_balance,
                   current_consecutive_losses, daily_pnl_pct, is_market_safe,
                   symbolVars, clock, scanIdx, scanNow, scanTicker, scanActive,
                   monVars, haltReported, highest_passed, idleVars>>
    /\ caught' = {}

\* start(), lines 192-199: the baseline is taken, the start message is sent,
\* the indicators are refreshed from the 1-minute series (for the symbols in
\* ok, whose series came back with 30 bars or more) and the monitor loop is
\* created.
StartInit ==
    /\ scanPc = "init"
    /\ \E b \in FetchTotalKrw : init_daily_balance(b)
    /\ \E ok \in env.bars_ok :
          strategies' = [s \in Symbols |->
              update_indicators(strategies[s], s \in ok, NoneVal)]
    /\ scanPc' = "top"
    /\ monPc' = "top"
    /\ sent' = {"start"} /\ submitted' = NoOrder
    /\ UNCHANGED <<is_running, is_paused, is_dry_run, is_market_safe, position,
                   last_sell_time, clock, scanIdx, scanNow, scanTicker,
                   scanActive, monIdx, monTicker, monExit, haltReported,
                   idleVars, newDaySeen, highest_passed>>
    /\ caught' = {}

\* stop(): the signal handler, between any two steps of the loops.
Stop ==
    /\ is_running
    /\ is_running' = FALSE
    /\ sent' = {} /\ submitted' = NoOrder
    /\ UNCHANGED <<is_paused, is_dry_run, start_of_day_balance,
                   current_consecutive_losses, daily_pnl_pct, is_market_safe,
                   symbolVars, clock, scanVars, monVars, haltReported,
                   idleVars, newDaySeen, highest_passed>>
    /\ caught' = {}

\* start(), lines 201-204: the loop condition, now = now_utc(), and the call
\* of _process_commands up to its await of get_recent_command.
ScanTop ==
    /\ scanPc = "top"
    /\ scanPc' = IF is_running THEN "cmd" ELSE "done"
    /\ scanNow' = IF is_running THEN clock ELSE scanNow
    /\ scanIdx' = 1
    /\ sent' = {} /\ submitted' = NoOrder
    /\ UNCHANGED <<engineVars, symbolVars, clock, scanTicker, scanActive,
                   monVars, haltReported, idleVars, newDaySeen, highest_passed>>
    /\ caught' = {}

\* _process_commands, lines 142-153, with the command text c; then start(),
\* line 207: midnight is "now falls in the first ten seconds of a day".
ScanCommands ==
    /\ scanPc = "cmd"
    /\ \E c \in env.commands, reportOk \in env.reports,
          midnight \in MidnightAnswers(scanNow) :
          /\ is_paused' = PausedAfterCommand(c, is_paused)
          /\ current_consecutive_losses' =
                 LossesAfterCommand(c, current_consecutive_losses)
          /\ sent' = CommandMessages(c, reportOk)
          /\ haltReported' = HaltReportedAfter(is_paused', {})
          /\ scanPc' = IF midnight THEN "daily" ELSE "safety"
    /\ newDaySeen' = IF newDaySeen = "no" /\ OnNewDay(scanNow)
                      THEN "by_scan" ELSE newDaySeen
    /\ submitted' = NoOrder
    /\ UNCHANGED <<is_running, is_dry_run, start_of_day_balance, daily_pnl_pct,
                   is_market_safe, symbolVars, clock, scanIdx, scanNow,
                   scanTicker, scanActive, monVars, highest_passed, idleVars>>
    /\ caught' = {}

\* start(), line 208: _init_daily_balance after its balance fetch.
ScanDaily ==
    /\ scanPc = "daily"
    /\ \E b \in FetchTotalKrw : init_daily_balance(b)
    /\ scanPc' = "safety"
    /\ sent' = {} /\ submitted' = NoOrder
    /\ UNCHANGED <<is_running, is_paused, is_dry_run, is_market_safe,
                   symbolVars, clock, scanIdx, scanNow, scanTicker, scanActive,
                   monVars, haltReported, idleVars, newDaySeen, highest_passed>>
    /\ caught' = {}

\* _check_account_safety, lines 71-84, up to the balance fetch, and for the
\* paths that return before it, start(), lines 213-215.
ScanSafety ==
    /\ scanPc = "safety"
    /\ IF NoBaseline
       THEN /\ scanPc' = IF EntryBlocked(is_paused, TRUE) THEN "top"
                         ELSE "market"
            /\ sent' = {}
            /\ UNCHANGED <<is_paused, haltReported>>
       ELSE IF LossStreakBreach
       THEN /\ is_paused' = TRUE
            /\ sent' = IF HaltAlreadyFlagged THEN {} ELSE {"halt_losses"}
            /\ haltReported' = HaltReportedAfter(TRUE, sent')
            /\ scanPc' = "top"
       ELSE /\ scanPc' = "safety_bal"
            /\ sent' = {}
            /\ UNCHANGED <<is_paused, haltReported>>
    /\ submitted' = NoOrder
    /\ UNCHANGED <<is_running, is_dry_run, start_of_day_balance,
                   current_consecutive_losses, daily_pnl_pct, is_market_safe,
                   symbolVars, clock, scanIdx, scanNow, scanTicker, scanActive,
                   monVars, idleVars, newDaySeen, highest_passed>>
    /\ caught' = {}

\* _check_account_safety, lines 85-99, after the balance fetch returned b, and
\* start(), lines 213-215.
ScanSafetyBalance ==
    /\ scanPc = "safety_bal"
    /\ \E b \in FetchTotalKrw :
          LET pnl == [num |-> GetOrZero(b) - start_of_day_balance,
                      den |-> start_of_day_balance]
          IN  IF start_of_day_balance > 0
              THEN /\ daily_pnl_pct' = pnl
                   /\ IF DailyLossBreach(pnl)
                      THEN /\ is_paused' = TRUE
                           /\ sent' = IF HaltAlreadyFlagged THEN {}
                                      ELSE {"halt_daily"}
                           /\ haltReported' = HaltReportedAfter(TRUE, sent')
                           /\ scanPc' = "top"
                      ELSE /\ scanPc' = IF EntryBlocked(is_paused, TRUE)
                                        THEN "top" ELSE "market"
                           /\ sent' = {}
                           /\ UNCHANGED <<is_paused, haltReported>>
              ELSE /\ scanPc' = IF EntryBlocked(is_paused, TRUE)
                                THEN "top" ELSE "market"
                   /\ sent' = {}
                   /\ UNCHANGED <<daily_pnl_pct, is_paused, haltReported>>
    /\ submitted' = NoOrder
    /\ UNCHANGED <<is_running, is_dry_run, start_of_day_balance,
                   current_consecutive_losses, is_market_safe, symbolVars,
                   clock, scanIdx, scanNow, scanTicker, scanActive,
                   monVars, idleVars, newDaySeen, highest_passed>>
    /\ caught' = {}

\* start(), lines 217-228: heartbeat and daily report (report: the hour is 1,
\* no report was sent today and the report could be built), the market
\* check (safe: what _check_market_sentiment leaves in is_market_safe) and,
\* when a minute has passed since the last one, the indicator refresh from
\* the 1-minute series (ok: the symbols whose series came back with 30 bars
\* or more; empty when no refresh is due).  None of this is read or written
\* by the monitor loop, so the awaits inside are not interleaving points.
ScanRefresh ==
    /\ scanPc = "market"
    /\ \E safe \in env.market : is_market_safe' = safe
    /\ \E ok \in env.bars_ok :
          strategies' = [s \in Symbols |->
              update_indicators(strategies[s], s \in ok, NoneVal)]
    /\ \E report \in env.reports :
          sent' = IF report THEN {"daily_report"} ELSE {}
    /\ scanPc' = "sym"
    /\ scanIdx' = 1
    /\ submitted' = NoOrder
    /\ UNCHANGED <<is_running, is_paused, is_dry_run, start_of_day_balance,
                   current_consecutive_losses, daily_pnl_pct, position,
                   last_sell_time, clock, scanNow, scanTicker, scanActive,
                   monVars, haltReported, idleVars, newDaySeen, highest_passed>>
    /\ caught' = {}

\* A faulty line 244 that never sees a position (sensitivity of C1).
HasPositionNever(s) == FALSE
\* _process_trading_logic, line 244.
HasPosition(s) == position[s].held
\* A faulty line 246 that knows no cooldown (sensitivity of C11).
InCooldownNever(s, now) == FALSE
\* _process_trading_logic, line 246.
InCooldown(s, now) ==
    /\ last_sell_time[s] # NoneVal
    /\ (now - last_sell_time[s]) * TickSeconds < CooldownSeconds
\* _execute_buy, line 304.
ActivePositions == Cardinality({s \in Symbols : position[s].held})
\* _execute_buy, lines 310-313: invest_krw < 5050.
BelowMinimumBuy(krw_free, active) ==
    krw_free * 98 < MinNotional * 100 * (env.cap - active)
\* A faulty line 305 that finds a free slot every time (sensitivity of C13).
SlotAlwaysFree(active) == TRUE
\* _execute_buy, line 305: the buy goes on only below the cap.
SlotFree(active) == active < env.cap

\* A faulty line 249 that ignores the market flag (sensitivity of C12).
MarketUnsafeNever == FALSE
\* _process_trading_logic, line 249.
MarketUnsafe == ~is_market_safe

\* _process_trading_logic, lines 243-251, up to the ticker fetch.
ScanSymbol ==
    /\ scanPc = "sym"
    /\ IF HasPosition(scanIdx) \/ InCooldown(scanIdx, scanNow)
          \/ MarketUnsafe
       THEN /\ scanPc' = NextScanPc(scanIdx)
            /\ scanIdx' = NextScanIdx(scanIdx)
       ELSE /\ scanPc' = "ticker"
            /\ UNCHANGED scanIdx
    /\ sent' = {} /\ submitted' = NoOrder
    /\ UNCHANGED <<engineVars, symbolVars, clock, scanNow, scanTicker,
                   scanActive, monVars, haltReported, idleVars, newDaySeen, highest_passed>>
    /\ caught' = {}

\* _process_trading_logic, lines 242 and 257-258: an exception raised while
\* symbol i is scanned is caught and logged, the call returns and the for
\* loop of start() goes on: the scan loop's position after the exception.
ScanAfterRaise(i) == <<NextScanPc(i), NextScanIdx(i)>>

\* _process_trading_logic, lines 252-255, after the ticker fetch returned t,
\* and _execute_buy, lines 304-307, up to the balance fetch; lines 257-258
\* when the evaluator raises.
ScanTicker ==
    /\ scanPc = "ticker"
    /\ \E t \in env.tickers :
          IF t = EmptyResult
          THEN /\ scanPc' = NextScanPc(scanIdx)
               /\ scanIdx' = NextScanIdx(scanIdx)
               /\ caught' = {}
               /\ UNCHANGED <<strategies, scanTicker, scanActive>>
          ELSE IF check_signal_raises(strategies[scanIdx], t)
          THEN /\ scanPc' = ScanAfterRaise(scanIdx)[1]
               /\ scanIdx' = ScanAfterRaise(scanIdx)[2]
               /\ caught' = {<<"entry", scanIdx>>}
               /\ UNCHANGED <<strategies, scanTicker, scanActive>>
          ELSE /\ caught' = {}
               /\ strategies' = [strategies EXCEPT ![scanIdx] =
                                    check_signal_state(@, t)]
               /\ IF check_signal(strategies[scanIdx], t)
                     /\ SlotFree(ActivePositions)
                  THEN /\ scanPc' = "buy_bal"
                       /\ scanTicker' = t
                       /\ scanActive' = ActivePositions
                       /\ UNCHANGED scanIdx
                  ELSE /\ scanPc' = NextScanPc(scanIdx)
                       /\ scanIdx' = NextScanIdx(scanIdx)
                       /\ UNCHANGED <<scanTicker, scanActive>>
    /\ sent' = {} /\ submitted' = NoOrder
    /\ UNCHANGED <<engineVars, position, last_sell_time, clock, scanNow,
                   monVars, haltReported, idleVars, newDaySeen, highest_passed>>

\* _execute_buy, lines 308-315, after the balance fetch returned f: the buy
\* order is handed to the gateway.
ScanBuyBalance ==
    /\ scanPc = "buy_bal"
    /\ \E f \in FetchFreeKrw :
          IF BelowMinimumBuy(GetOrZero(f), scanActive)
          THEN /\ scanPc' = NextScanPc(scanIdx)
               /\ scanIdx' = NextScanIdx(scanIdx)
               /\ scanTicker' = EmptyResult
               /\ scanActive' = 0
               /\ submitted' = NoOrder
          ELSE /\ scanPc' = "buy_order"
               /\ submitted' = <<"buy", scanIdx>>
               /\ UNCHANGED <<scanIdx, scanTicker, scanActive>>
    /\ sent' = {}
    /\ UNCHANGED <<engineVars, symbolVars, clock, scanNow, monVars,
                   haltReported, idleVars, newDaySeen, highest_passed>>
    /\ caught' = {}

\* _execute_buy, lines 316-323: the position record of an accepted buy.
NewPosition(price, now) ==
    [held |-> TRUE, entry_price |-> price, strategy_type |-> "trend",
     state |-> "active", entry_time |-> now]

\* A faulty line 316 that records a position whatever the gateway answered
\* (sensitivity of C14).
OrderTruthyAlways(order) == TRUE
\* _execute_buy, line 316: "if order", on the dict returned by create_order
\* (order: TRUE for a filled dict, FALSE for the empty one).
OrderTruthy(order) == order

\* _execute_buy, lines 316-323, after create_order returned.
ScanBuyOrder ==
    /\ scanPc = "buy_order"
    /\ \E order \in CreateOrderResults :
          /\ IF OrderTruthy(order)
             THEN /\ position' = [position EXCEPT ![scanIdx] =
                                     NewPosition(scanTicker, clock)]
                  /\ highest_passed' =
                         [highest_passed EXCEPT ![scanIdx] = NoPeak]
                  /\ sent' = {"buy"}
             ELSE /\ UNCHANGED <<position, highest_passed>>
                  /\ sent' = {}
          /\ submitted' = <<IF order THEN "buy_accepted" ELSE "buy_refused",
                            scanIdx>>
    /\ scanPc' = NextScanPc(scanIdx)
    /\ scanIdx' = NextScanIdx(scanIdx)
    /\ scanTicker' = EmptyResult
    /\ scanActive' = 0
    /\ UNCHANGED <<engineVars, last_sell_time, strategies, clock, scanNow,
                   monVars, haltReported, idleVars, newDaySeen>>
    /\ caught' = {}

\* --------------------------------------------------------- the monitor loop
NextMonPc(i) == IF i < NSym THEN "sym" ELSE "top"
NextMonIdx(i) == IF i < NSym THEN i + 1 ELSE 1

\* A faulty line 163 that skips the positions while the engine is paused
\* (sensitivity of C6).
MonitorEligibleUnlessPaused(s) ==
    position[s].held /\ position[s].state # "selling" /\ ~is_paused
\* A faulty line 163 that does not look at the state of the position
\* (sensitivity of C37).
MonitorEligibleAnyState(s) == position[s].held
\* _monitor_positions_loop, line 163.  The loop does not read is_paused.
MonitorEligible(s) == position[s].held /\ position[s].state # "selling"

\* _execute_sell, lines 281-285: net_pnl < 0, for pnl in percent less 0.1.
SellIsLoss(entry_price, last) == (last - entry_price) * 1000 - entry_price < 0

LossesAfterSellCounting(n, entry_price, last) == n + 1
\* _execute_sell, lines 285-288: the loss counter after a closed trade.
LossesAfterSell(n, entry_price, last) ==
    IF SellIsLoss(entry_price, last) THEN n + 1 ELSE 0

\* _execute_sell, lines 266-269: the amount to sell.
ActualAmount(f) == IF is_dry_run THEN DryRunAmount ELSE GetOrZero(f)
\* _execute_sell, line 271.
NothingHeld(amount) == amount <= 0
\* _execute_sell, line 275.
BelowMinimumSell(amount, last) ==
    ~is_dry_run /\ amount * last < MinNotional

\* _monitor_positions_loop, line 158: the loop condition.
MonTop ==
    /\ monPc = "top"
    /\ monPc' = IF is_running THEN "sym" ELSE "done"
    /\ monIdx' = 1
    /\ sent' = {} /\ submitted' = NoOrder
    /\ UNCHANGED <<engineVars, symbolVars, clock, scanVars, monTicker,
                   monExit, haltReported, idleVars, newDaySeen, highest_passed>>
    /\ caught' = {}

\* _monitor_positions_loop, lines 161-165, and _check_position_exit, line 175,
\* up to the ticker fetch.
MonSymbol ==
    /\ monPc = "sym"
    /\ IF MonitorEligible(monIdx)
       THEN /\ monPc' = "ticker"
            /\ UNCHANGED monIdx
       ELSE /\ monPc' = NextMonPc(monIdx)
            /\ monIdx' = NextMonIdx(monIdx)
    /\ sent' = {} /\ submitted' = NoOrder
    /\ UNCHANGED <<engineVars, symbolVars, clock, scanVars, monTicker,
                   monExit, haltReported, idleVars, newDaySeen, highest_passed>>
    /\ caught' = {}

\* A _check_position_exit without its try: the exception ends the for loop
\* of _monitor_positions_loop, whose own handler (line 167) starts the next
\* cycle (sensitivity of C16).
MonAbortCycle(i) == <<"top", 1>>
\* _check_position_exit, lines 174 and 185-186: an exception raised while the
\* position of symbol i is checked is caught and logged, the call returns and
\* the for loop goes on: the monitor loop's position after the exception.
MonAfterRaise(i) == <<NextMonPc(i), NextMonIdx(i)>>

\* _check_position_exit, lines 176-184, after the ticker fetch returned t, and
\* _execute_sell, line 263, up to the balance fetch; lines 185-186 when the
\* evaluator raises.
MonTicker ==
    /\ monPc = "ticker"
    /\ \E t \in env.tickers :
          IF t = EmptyResult
          THEN /\ monPc' = NextMonPc(monIdx)
               /\ monIdx' = NextMonIdx(monIdx)
               /\ caught' = {}
               /\ UNCHANGED <<position, strategies, monTicker, monExit,
                              highest_passed>>
          ELSE LET pos == position[monIdx]
                   st == strategies[monIdx]
                   exit_type == check_exit_signal(st, pos.entry_price, t,
                                                  pos.entry_time, clock,
                                                  env.aware)
               IN  /\ strategies' = [strategies EXCEPT ![monIdx] =
                          check_exit_state(st, pos.entry_price, t,
                                           pos.entry_time, clock, env.aware)]
                   /\ highest_passed' = [highest_passed EXCEPT ![monIdx] =
                          PeakAfterExitCheck(@, t)]
                   /\ IF exit_type = "raise"
                      THEN /\ monPc' = MonAfterRaise(monIdx)[1]
                           /\ monIdx' = MonAfterRaise(monIdx)[2]
                           /\ caught' = {<<"exit", monIdx>>}
                           /\ UNCHANGED <<position, monTicker, monExit>>
                      ELSE IF exit_type # "none"
                      THEN /\ position' = [position EXCEPT
                                              ![monIdx].state = "selling"]
                           /\ monPc' = "sell_bal"
                           /\ monTicker' = t
                           /\ monExit' = exit_type
                           /\ caught' = {}
                           /\ UNCHANGED monIdx
                      ELSE /\ monPc' = NextMonPc(monIdx)
                           /\ monIdx' = NextMonIdx(monIdx)
                           /\ caught' = {}
                           /\ UNCHANGED <<position, monTicker, monExit>>
    /\ sent' = {} /\ submitted' = NoOrder
    /\ UNCHANGED <<engineVars, last_sell_time, clock, scanVars, haltReported,
                   idleVars, newDaySeen>>

\* _execute_sell, lines 264-279, after the balance fetch returned f: the
\* record is dropped when nothing (or dust) is held, the sell order is handed
\* to the gateway otherwise; lines 296-299 when the amount is None and the
\* comparison raises.
MonSellBalance ==
    /\ monPc = "sell_bal"
    /\ \E f \in FetchFreeCoin :
          IF ~is_dry_run /\ f = NoneVal
          THEN /\ position' = [position EXCEPT ![monIdx].state = "active"]
               /\ monPc' = NextMonPc(monIdx)
               /\ monIdx' = NextMonIdx(monIdx)
               /\ monTicker' = EmptyResult
               /\ monExit' = "none"
               /\ submitted' = NoOrder
               /\ caught' = {<<"sell", monIdx>>}
          ELSE IF \/ NothingHeld(ActualAmount(f))
                  \/ BelowMinimumSell(ActualAmount(f), monTicker)
          THEN /\ position' = [position EXCEPT ![monIdx] = NoPosition]
               /\ monPc' = NextMonPc(monIdx)
               /\ monIdx' = NextMonIdx(monIdx)
               /\ monTicker' = EmptyResult
               /\ monExit' = "none"
               /\ submitted' = NoOrder
               /\ caught' = {}
          ELSE /\ monPc' = "sell_order"
               /\ submitted' = <<"sell", monIdx>>
               /\ caught' = {}
               /\ UNCHANGED <<position, monIdx, monTicker, monExit>>
    /\ sent' = {}
    /\ UNCHANGED <<engineVars, last_sell_time, strategies, clock, scanVars,
                   haltReported, idleVars, newDaySeen, highest_passed>>

\* _execute_sell, lines 280-290, after create_order returned: an accepted sell
\* updates the loss counter and sends the exit message; an empty result
\* changes nothing.
MonSellOrder ==
    /\ monPc = "sell_order"
    /\ \E accepted \in CreateOrderResults :
          IF accepted
          THEN /\ LossesAfterSell(current_consecutive_losses,
                                  position[monIdx].entry_price, monTicker)
                     <= LossCap
               /\ current_consecutive_losses' =
                     LossesAfterSell(current_consecutive_losses,
                                     position[monIdx].entry_price, monTicker)
               /\ sent' = {"sell"}
               /\ monPc' = "sell_notify"
               /\ UNCHANGED <<monIdx, monTicker, monExit>>
          ELSE /\ UNCHANGED current_consecutive_losses
               /\ sent' = {}
               /\ monPc' = NextMonPc(monIdx)
               /\ monIdx' = NextMonIdx(monIdx)
               /\ monTicker' = EmptyResult
               /\ monExit' = "none"
    /\ submitted' = NoOrder
    /\ UNCHANGED <<is_running, is_paused, is_dry_run, start_of_day_balance,
                   daily_pnl_pct, is_market_safe, symbolVars, clock, scanVars,
                   haltReported, idleVars, newDaySeen, highest_passed>>
    /\ caught' = {}

\* _execute_sell, lines 292-294, after the exit message was sent: the
\* trailing state is reset, the exit time recorded, the position cleared.
MonSellFinish ==
    /\ monPc = "sell_notify"
    /\ strategies' = [strategies EXCEPT ![monIdx] = reset_trailing_state(@)]
    /\ last_sell_time' = [last_sell_time EXCEPT ![monIdx] = clock]
    /\ position' = [position EXCEPT ![monIdx] = NoPosition]
    /\ monPc' = NextMonPc(monIdx)
    /\ monIdx' = NextMonIdx(monIdx)
    /\ monTicker' = EmptyResult
    /\ monExit' = "none"
    /\ sent' = {} /\ submitted' = NoOrder
    /\ UNCHANGED <<engineVars, clock, scanVars, haltReported, idleVars, newDaySeen, highest_passed>>
    /\ caught' = {}

\* ---------------------------------------------------------- the environment
\* Time passes.
Tick ==
    /\ clock < MaxClock
    /\ clock' = clock + 1
    /\ sent' = {} /\ submitted' = NoOrder
    /\ UNCHANGED <<engineVars, symbolVars, scanVars, monVars, haltReported,
                   idleVars, newDaySeen, highest_passed>>
    /\ caught' = {}

\* ScalpingStrategy.update_indicators handed both series for one symbol.
UpdateIndicators15m ==
    /\ scanPc # "idle"
    /\ \E s \in Symbols, trend15 \in env.trend15 :
          strategies' = [strategies EXCEPT ![s] =
                            update_indicators(@, TRUE, trend15)]
    /\ sent' = {} /\ submitted' = NoOrder
    /\ UNCHANGED <<engineVars, position, last_sell_time, clock, scanVars,
                   monVars, haltReported, idleVars, newDaySeen, highest_passed>>
    /\ caught' = {}

\* main(), lines 41-50, and asyncio.run (line 54): start() has returned, so
\* main returns and asyncio.run cancels the task that start() created for the
\* monitor loop and never awaited.  The CancelledError is raised at the await
\* the monitor loop is suspended in; it is not an Exception (Python 3.8 and
\* later), so no handler of the loop catches it and the loop ends there.
MainReturns ==
    /\ scanPc = "done"
    /\ monPc \notin {"done", "cancelled"}
    /\ monPc' = "cancelled"
    /\ sent' = {} /\ submitted' = NoOrder /\ caught' = {}
    /\ UNCHANGED <<engineVars, symbolVars, clock, scanVars, monIdx, monTicker,
                   monExit, haltReported, idleVars, newDaySeen, highest_passed>>

\* ------------------------------------------------- the evaluators, directly
\* The arguments of the direct calls.  ai: "absent" when check_signal is
\* called with the ticker alone, "None" for ai_pred=None, "loosened" for the
\* suggestion of test_ai_parameter_adaptation (rsi_buy_threshold 30,
\* volume_multiplier 1.0).
EvalPrices == {990, 1005}
EvalEntryPrice == 1000
EvalAi == {"absent", "None", "loosened"}
EvalRsi == {40, 55}
EvalVolumeRatio == {11, 13, 15}
EvalRevRsi == {20, 28}
LoosenedRsi == 30

\* ScalpingStrategy.check_signal(self, current_data), line 102: the method
\* has no ai_pred parameter, so a call that passes one raises TypeError.
TrendCallRaises(ai) == ai # "absent"

\* ScalpingStrategy.update_indicators handed a 1-minute series (and a
\* 15-minute one when trend15 is not NoneVal).
EvalTrendRefresh ==
    /\ \E rsi \in EvalRsi, vr \in EvalVolumeRatio, trend15 \in {NoneVal, 0, 1} :
          evalTrend' = update_indicators_on(evalTrend, rsi, vr, trend15)
    /\ sent' = {} /\ submitted' = NoOrder /\ caught' = {}
    /\ UNCHANGED <<engineVars, symbolVars, clock, scanVars, monVars,
                   haltReported, learnerVars, evalRev, evalOut, env, newDaySeen, highest_passed>>

\* ReversalStrategy.update_indicators handed a series.
EvalRevRefresh ==
    /\ \E rsi \in EvalRevRsi : evalRev' = rev_update_indicators(evalRev, rsi)
    /\ sent' = {} /\ submitted' = NoOrder /\ caught' = {}
    /\ UNCHANGED <<engineVars, symbolVars, clock, scanVars, monVars,
                   haltReported, learnerVars, evalTrend, evalOut, env, newDaySeen, highest_passed>>

\* ScalpingStrategy.check_signal called with a ticker and ai.
EvalTrendEntry ==
    /\ \E price \in EvalPrices, ai \in EvalAi :
          IF TrendCallRaises(ai)
          THEN /\ evalOut' = [call |-> "trend_entry", price |-> price,
                              ai |-> ai, result |-> "raise"]
               /\ UNCHANGED evalTrend
          ELSE /\ evalOut' = [call |-> "trend_entry", price |-> price,
                              ai |-> ai,
                              result |-> IF check_signal(evalTrend, price)
                                         THEN "True" ELSE "False"]
               /\ evalTrend' = check_signal_state(evalTrend, price)
    /\ sent' = {} /\ submitted' = NoOrder /\ caught' = {}
    /\ UNCHANGED <<engineVars, symbolVars, clock, scanVars, monVars,
                   haltReported, learnerVars, evalRev, env, newDaySeen, highest_passed>>

\* ScalpingStrategy.check_exit_signal(entry_price, current_price), without
\* an entry time.
EvalTrendExit ==
    /\ \E price \in EvalPrices :
          /\ evalOut' = [call |-> "trend_exit", price |-> price,
                         ai |-> "absent",
                         result |-> check_exit_signal(evalTrend,
                                        EvalEntryPrice, price, NoneVal,
                                        clock, TRUE)]
          /\ evalTrend' = check_exit_state(evalTrend, EvalEntryPrice, price,
                                           NoneVal, clock, TRUE)
    /\ sent' = {} /\ submitted' = NoOrder /\ caught' = {}
    /\ UNCHANGED <<engineVars, symbolVars, clock, scanVars, monVars,
                   haltReported, learnerVars, evalRev, env, newDaySeen, highest_passed>>

\* ReversalStrategy.check_signal called with a ticker and ai.
EvalRevEntry ==
    /\ \E price \in EvalPrices, ai \in EvalAi :
          LET override == IF ai = "loosened" THEN LoosenedRsi ELSE NoneVal
          IN  /\ evalOut' = [call |-> "rev_entry", price |-> price,
                             ai |-> ai,
                             result |-> IF rev_check_signal(evalRev, price,
                                                            override)
                                        THEN "True" ELSE "False"]
              /\ evalRev' = rev_check_signal_state(evalRev, price, override)
    /\ sent' = {} /\ submitted' = NoOrder /\ caught' = {}
    /\ UNCHANGED <<engineVars, symbolVars, clock, scanVars, monVars,
                   haltReported, learnerVars, evalTrend, env, newDaySeen, highest_passed>>

\* ReversalStrategy.check_exit_signal(entry_price, current_price).
EvalRevExit ==
    /\ \E price \in EvalPrices :
          evalOut' = [call |-> "rev_exit", price |-> price, ai |-> "absent",
                      result |-> rev_check_exit_signal(evalRev,
                                     EvalEntryPrice, price)]
    /\ sent' = {} /\ submitted' = NoOrder /\ caught' = {}
    /\ UNCHANGED <<engineVars, symbolVars, clock, scanVars, monVars,
                   haltReported, learnerVars, evalTrend, evalRev, env, newDaySeen, highest_passed>>

\* ------------------------------------ the reversal entry, over its inputs
\* ReversalStrategy.update_indicators on series whose last two oscillator
\* values are prev_rsi and rsi (rising, level and falling), and
\* check_signal called at prices below, just under and just over
\* bb_lower * 1.002 (1002 for the bb_lower of 1000), without a suggestion
\* and with a suggestion whose rsi_buy_threshold is under or over the
\* evaluator's own 25.  No input lies on a bound where the floating-point
\* product could fall on either side.
HookRsi == {20, 28, 33}
HookPrevRsi == {18, 28, 40}
HookPrices == {990, 1001, 1003}
HookOverrides == {NoneVal, 22, 30}

HookRevRefresh ==
    /\ \E rsi \in HookRsi, prev \in HookPrevRsi :
          evalRev' = [rev_update_indicators(evalRev, rsi)
                          EXCEPT !.prev_rsi = prev]
    /\ sent' = {} /\ submitted' = NoOrder /\ caught' = {}
    /\ UNCHANGED <<engineVars, symbolVars, clock, scanVars, monVars,
                   haltReported, learnerVars, evalTrend, evalOut, env,
                   newDaySeen, highest_passed>>

HookRevEntry ==
    /\ \E price \in HookPrices, override \in HookOverrides :
          /\ evalOut' = [call |-> "rev_entry", price |-> price,
                         ai |-> IF override = NoneVal THEN "absent"
                                ELSE "suggestion",
                         override |-> override,
                         result |-> IF rev_check_signal(evalRev, price,
                                                        override)
                                    THEN "True" ELSE "False"]
          /\ evalRev' = rev_check_signal_state(evalRev, price, override)
    /\ sent' = {} /\ submitted' = NoOrder /\ caught' = {}
    /\ UNCHANGED <<engineVars, symbolVars, clock, scanVars, monVars,
                   haltReported, learnerVars, evalTrend, env, newDaySeen, highest_passed>>

\* ------------------------------------------- the evaluators on a position
\* A position opened at EvalEntryPrice by an entry check that returned True
\* and followed by exit checks until one returns a reason.  evalOut carries,
\* besides the call and its result, which evaluator holds the position
\* (open), the highest price handed to an evaluation since the entry (peak)
\* and the entry time and now of the call, in ticks; the entry time is
\* offset-aware.
ExitPrices == {997, 1001, 1003, 1005, 1007, 1010}
ExitRevPrices == {990, 1001, 1008, 1012, 1018, 1020}
ExitTimes == {<<NoneVal, 0>>, <<0, 0>>, <<0, 2>>}

PositionOpen(kind) ==
    IF evalOut.call = "none" THEN FALSE ELSE evalOut.open = kind
NoPositionOpen == ~PositionOpen("trend") /\ ~PositionOpen("rev")

\* ScalpingStrategy.check_signal returns True at EvalEntryPrice.
ExitTrendEnter ==
    /\ NoPositionOpen
    /\ check_signal(evalTrend, EvalEntryPrice)
    /\ evalTrend' = check_signal_state(evalTrend, EvalEntryPrice)
    /\ evalOut' = [call |-> "trend_entry", price |-> EvalEntryPrice,
                   ai |-> "absent", result |-> "True", open |-> "trend",
                   peak |-> EvalEntryPrice, entry_time |-> NoneVal, now |-> 0]
    /\ sent' = {} /\ submitted' = NoOrder /\ caught' = {}
    /\ UNCHANGED <<engineVars, symbolVars, clock, scanVars, monVars,
                   haltReported, learnerVars, evalRev, env, newDaySeen, highest_passed>>

\* ScalpingStrategy.check_exit_signal(entry_price, current_price,
\* entry_time) on the open position.
ExitTrendCheck ==
    /\ PositionOpen("trend")
    /\ \E price \in ExitPrices, t \in ExitTimes :
          LET result == check_exit_signal(evalTrend, EvalEntryPrice, price,
                                          t[1], t[2], TRUE)
          IN  /\ evalOut' = [call |-> "trend_exit", price |-> price,
                             ai |-> "absent", result |-> result,
                             open |-> IF result = "none" THEN "trend"
                                      ELSE "none",
                             peak |-> Max(evalOut.peak, price),
                             entry_time |-> t[1], now |-> t[2]]
              /\ evalTrend' = check_exit_state(evalTrend, EvalEntryPrice,
                                               price, t[1], t[2], TRUE)
    /\ sent' = {} /\ submitted' = NoOrder /\ caught' = {}
    /\ UNCHANGED <<engineVars, symbolVars, clock, scanVars, monVars,
                   haltReported, learnerVars, evalRev, env, newDaySeen, highest_passed>>

\* ReversalStrategy.check_signal returns True at EvalEntryPrice.
ExitRevEnter ==
    /\ NoPositionOpen
    /\ rev_check_signal(evalRev, EvalEntryPrice, NoneVal)
    /\ evalRev' = rev_check_signal_state(evalRev, EvalEntryPrice, NoneVal)
    /\ evalOut' = [call |-> "rev_entry", price |-> EvalEntryPrice,
                   ai |-> "absent", result |-> "True", open |-> "rev",
                   peak |-> EvalEntryPrice, entry_time |-> NoneVal, now |-> 0]
    /\ sent' = {} /\ submitted' = NoOrder /\ caught' = {}
    /\ UNCHANGED <<engineVars, symbolVars, clock, scanVars, monVars,
                   haltReported, learnerVars, evalTrend, env, newDaySeen, highest_passed>>

\* ReversalStrategy.check_exit_signal(entry_price, current_price) on the
\* open position.
ExitRevCheck ==
    /\ PositionOpen("rev")
    /\ \E price \in ExitRevPrices :
          LET result == rev_check_exit_signal(evalRev, EvalEntryPrice, price)
          IN  evalOut' = [call |-> "rev_exit", price |-> price,
                          ai |-> "absent", result |-> result,
                          open |-> IF result = "none" THEN "rev" ELSE "none",
                          peak |-> Max(evalOut.peak, price),
                          entry_time |-> NoneVal, now |-> 0]
    /\ sent' = {} /\ submitted' = NoOrder /\ caught' = {}
    /\ UNCHANGED <<engineVars, symbolVars, clock, scanVars, monVars,
                   haltReported, learnerVars, evalTrend, evalRev, env,
                   newDaySeen, highest_passed>>

\* -------------------------------------------------- the OnlineLearner harness
\* OnlineLearner.feedback(result): the result goes on the queue.
LearnerFeedback ==
    /\ Len(arrived) < Len(env.outcomes)
    /\ \E p \in env.outcomes[Len(arrived) + 1] :
          /\ update_queue' = Append(update_queue, p)
          /\ arrived' = Append(arrived, p)
    /\ suggested' = NoSuggestion /\ predictCalls' = 0
    /\ sent' = {} /\ submitted' = NoOrder /\ caught' = {}
    /\ UNCHANGED <<engineVars, symbolVars, clock, scanVars, monVars,
                   haltReported, recent_pnl, current_params, evalTrend,
                   evalRev, evalOut, env, newDaySeen, highest_passed>>

\* One iteration of OnlineLearner._training_loop: the oldest queued result
\* is taken and its pnl_pct appended to the window.
LearnerTrain ==
    /\ update_queue # <<>>
    /\ recent_pnl' = deque_append(recent_pnl, Head(update_queue))
    /\ update_queue' = Tail(update_queue)
    /\ suggested' = NoSuggestion /\ predictCalls' = 0
    /\ sent' = {} /\ submitted' = NoOrder /\ caught' = {}
    /\ UNCHANGED <<engineVars, symbolVars, clock, scanVars, monVars,
                   haltReported, current_params, arrived, evalTrend,
                   evalRev, evalOut, env, newDaySeen, highest_passed>>

\* OnlineLearner.predict(event).
LearnerPredict ==
    /\ predictCalls < MaxPredicts
    /\ predictCalls' = predictCalls + 1
    /\ suggested' = adjust_params_based_on_performance(recent_pnl,
                                                       current_params)
    /\ current_params' = params_after_predict(recent_pnl, current_params)
    /\ sent' = {} /\ submitted' = NoOrder /\ caught' = {}
    /\ UNCHANGED <<engineVars, symbolVars, clock, scanVars, monVars,
                   haltReported, update_queue, recent_pnl, arrived,
                   evalTrend, evalRev, evalOut, env, newDaySeen, highest_passed>>

ScanStep ==
    \/ Start \/ StartInit \/ ScanTop \/ ScanCommands \/ ScanDaily
    \/ ScanSafety \/ ScanSafetyBalance \/ ScanRefresh \/ ScanSymbol
    \/ ScanTicker \/ ScanBuyBalance \/ ScanBuyOrder

MonStep ==
    \/ MonTop \/ MonSymbol \/ MonTicker \/ MonSellBalance \/ MonSellOrder
    \/ MonSellFinish

Next == ScanStep \/ MonStep \/ Stop \/ Tick \/ UpdateIndicators15m

Spec == Init /\ [][Next]_vars

\* ------------------------------------------------------ the specifications
\* The entry and exit paths, both modes, every command, failing fetches and
\* orders, three price levels; the clock stands still and no stop signal
\* arrives.
TradeEnv ==
    [tickers |-> AllTickers, total_krw |-> AllTotalKrw,
     free_krw |-> {1000000, EmptyResult}, free_coin |-> {0, 100, NoneVal},
     orders |-> BOOLEAN, commands |-> AllCommands, midnight |-> BOOLEAN,
     market |-> {TRUE}, bars_ok |-> {Symbols}, reports |-> BOOLEAN,
     trend15 |-> {1}, dry_run |-> BOOLEAN, aware |-> TRUE,
     cap |-> max_positions,
     day_start |-> NoneVal]

NextTrade == ScanStep \/ MonStep \/ UpdateIndicators15m

SpecTrade == Construct(TradeEnv) /\ [][NextTrade]_vars

\* Runs of closed trades over time: every order is accepted, a balance fetch
\* of the risk governor may fail, a day may begin, the only command is resume.
StreakEnv ==
    [tickers |-> {990, 1000}, total_krw |-> {1000000, EmptyResult},
     free_krw |-> {1000000}, free_coin |-> {100}, orders |-> {TRUE},
     commands |-> {"", "resume"}, midnight |-> BOOLEAN, market |-> {TRUE},
     bars_ok |-> {Symbols}, reports |-> {FALSE}, trend15 |-> {1},
     dry_run |-> {FALSE}, aware |-> TRUE, cap |-> max_positions,
     day_start |-> NoneVal]

NextStreak == ScanStep \/ MonStep \/ Tick \/ UpdateIndicators15m

SpecStreak == Construct(StreakEnv) /\ [][NextStreak]_vars

\* The engine with a market check that answers either way: orders accepted or
\* refused, real orders only, no commands.
MarketEnv ==
    [tickers |-> AllTickers, total_krw |-> {1000000},
     free_krw |-> {1000000}, free_coin |-> {100},
     orders |-> BOOLEAN, commands |-> {""}, midnight |-> BOOLEAN,
     market |-> BOOLEAN, bars_ok |-> {Symbols}, reports |-> {FALSE},
     trend15 |-> {1}, dry_run |-> {FALSE}, aware |-> TRUE,
     cap |-> max_positions,
     day_start |-> NoneVal]
NextMarket == ScanStep \/ MonStep \/ UpdateIndicators15m
SpecMarket == Construct(MarketEnv) /\ [][NextMarket]_vars

\* The engine with fewer slots than symbols, so that the cap of line 305 is
\* what stops a buy: every order accepted, every balance sufficient.
CapEnv ==
    [tickers |-> {990, 1000, EmptyResult}, total_krw |-> {1000000},
     free_krw |-> {1000000}, free_coin |-> {100}, orders |-> BOOLEAN,
     commands |-> {""}, midnight |-> BOOLEAN, market |-> {TRUE},
     bars_ok |-> {Symbols}, reports |-> {FALSE}, trend15 |-> {1},
     dry_run |-> {FALSE}, aware |-> TRUE, cap |-> CapSlots,
     day_start |-> NoneVal]
NextCap == ScanStep \/ MonStep \/ UpdateIndicators15m
SpecCap == Construct(CapEnv) /\ [][NextCap]_vars

\* The engine as written once positions exist: the trend flag is set by the
\* environment, the entry times are the offset-naive ones of now_utc(), the
\* clock runs, and a ticker can come back empty or without a last price.  The
\* sell path is never entered (every exit evaluation raises), so its steps
\* are left out.
NaiveEnv ==
    [tickers |-> {1000, NoneVal, EmptyResult}, total_krw |-> {1000000},
     free_krw |-> {1000000}, free_coin |-> {100}, orders |-> BOOLEAN,
     commands |-> {""}, midnight |-> BOOLEAN, market |-> {TRUE},
     bars_ok |-> SUBSET Symbols, reports |-> {FALSE}, trend15 |-> {1},
     dry_run |-> {FALSE}, aware |-> FALSE, cap |-> max_positions,
     day_start |-> NoneVal]
\* The engine up to the end of the process: a stop signal arrives at any
\* moment, every order is accepted, prices at and below the entry price.
StopEnv ==
    [tickers |-> {990, 1000}, total_krw |-> {1000000},
     free_krw |-> {1000000}, free_coin |-> {100}, orders |-> {TRUE},
     commands |-> {""}, midnight |-> BOOLEAN, market |-> {TRUE},
     bars_ok |-> {Symbols}, reports |-> {FALSE}, trend15 |-> {1},
     dry_run |-> {FALSE}, aware |-> TRUE, cap |-> max_positions,
     day_start |-> NoneVal]
NextStop ==
    ScanStep \/ MonStep \/ Stop \/ MainReturns \/ UpdateIndicators15m
SpecStop == Construct(StopEnv) /\ [][NextStop]_vars

\* The two evaluators on their own, from construction: refreshed from series
\* of several kinds and called directly, in any order.
NextEval ==
    \/ EvalTrendRefresh \/ EvalRevRefresh \/ EvalTrendEntry \/ EvalTrendExit
    \/ EvalRevEntry \/ EvalRevExit
SpecEval == Construct(FullEnv) /\ [][NextEval]_vars

\* The reversal evaluator on its own, refreshed and asked for an entry in
\* any order.
NextHook == HookRevRefresh \/ HookRevEntry
SpecHook == Construct(FullEnv) /\ [][NextHook]_vars

\* The engine as StrategyManager wires it: the only caller of
\* update_indicators is _update_all_indicators, which hands over the
\* 1-minute series alone (line 133), so no step refreshes an evaluator from
\* a 15-minute series.  The steps of the scan loop up to the entry check,
\* the steps of the monitor loop up to its test for a position, stop() and
\* the passing of time; the steps that follow a True entry check or a held
\* position are those C34_NeverBuys shows to be out of reach.
NextWired ==
    \/ Start \/ StartInit \/ ScanTop \/ ScanCommands \/ ScanDaily
    \/ ScanSafety \/ ScanSafetyBalance \/ ScanRefresh \/ ScanSymbol
    \/ ScanTicker \/ MonTop \/ MonSymbol \/ Stop \/ Tick
SpecWired == Construct(FullEnv) /\ [][NextWired]_vars

\* The live engine on an account of its own at a price that stays where it
\* is or moves by a thousandth, too little for any exit: the baseline is
\* taken at the start, every order is accepted, no command arrives, no day
\* begins and the clock stands still, so positions are opened and none is
\* closed.  The steps of the monitor loop are those up to the exit check,
\* which finds no reason to sell.
AccountEnv ==
    [tickers |-> {1000, 1001}, total_krw |-> {EmptyResult},
     free_krw |-> {EmptyResult}, free_coin |-> {100}, orders |-> {TRUE},
     commands |-> {""}, midnight |-> {FALSE}, market |-> {TRUE},
     bars_ok |-> SUBSET Symbols, reports |-> BOOLEAN, trend15 |-> {1},
     dry_run |-> {FALSE}, aware |-> TRUE, cap |-> max_positions,
     day_start |-> NoneVal, account |-> 1000000]
NextAccount ==
    \/ Start \/ StartInit \/ ScanTop \/ ScanCommands \/ ScanSafety
    \/ ScanSafetyBalance \/ ScanRefresh \/ ScanSymbol \/ ScanTicker
    \/ ScanBuyBalance \/ ScanBuyOrder \/ MonTop \/ MonSymbol \/ MonTicker
    \/ UpdateIndicators15m
SpecAccount == Construct(AccountEnv) /\ [][NextAccount]_vars

\* The engine with the exit evaluations of each position on record: prices at
\* and above the entry price, sell orders accepted or refused, a balance
\* fetch of the sell path that may hold None or nothing, the clock runs up to
\* the holding limit.  The entry times are offset-aware in TrailEnv and, as
\* the controller records them, offset-naive in TrailNaiveEnv.
TrailEnv ==
    [tickers |-> {1000, 1010}, total_krw |-> {1000000},
     free_krw |-> {1000000}, free_coin |-> {0, 100, NoneVal},
     orders |-> BOOLEAN, commands |-> {""}, midnight |-> {FALSE},
     market |-> {TRUE}, bars_ok |-> {Symbols}, reports |-> {FALSE},
     trend15 |-> {1}, dry_run |-> {FALSE}, aware |-> TRUE,
     cap |-> max_positions, day_start |-> NoneVal, track |-> TRUE]
TrailNaiveEnv == [TrailEnv EXCEPT !.aware = FALSE]
NextTrail ==
    \/ Start \/ StartInit \/ ScanTop \/ ScanCommands \/ ScanSafety
    \/ ScanSafetyBalance \/ ScanRefresh \/ ScanSymbol \/ ScanTicker
    \/ ScanBuyBalance \/ ScanBuyOrder \/ MonStep \/ Tick
    \/ UpdateIndicators15m
InitTrail == Construct(TrailEnv) \/ Construct(TrailNaiveEnv)
SpecTrail == InitTrail /\ [][NextTrail]_vars

NextNaive ==
    \/ ScanStep \/ MonTop \/ MonSymbol \/ MonTicker \/ Tick
    \/ UpdateIndicators15m
SpecNaive == Construct(NaiveEnv) /\ [][NextNaive]_vars

\* The engine across the start of a day: the day begins at tick 1, a scan
\* iteration that starts in that tick may or may not start within its first
\* ten seconds, pause and resume commands arrive, trades are opened and
\* closed, iterations take any time.
DayEnv ==
    [tickers |-> {990, 1000}, total_krw |-> {1000000, EmptyResult},
     free_krw |-> {1000000}, free_coin |-> {100}, orders |-> {TRUE},
     commands |-> {"", "pause", "resume"}, midnight |-> BOOLEAN,
     market |-> {TRUE}, bars_ok |-> {Symbols}, reports |-> {FALSE},
     trend15 |-> {1}, dry_run |-> {FALSE}, aware |-> TRUE,
     cap |-> max_positions, day_start |-> 1]
SpecDay == Construct(DayEnv) /\ [][NextStreak]_vars

\* The two evaluators each on a position of its own, one position at a time:
\* refreshed, entered at EvalEntryPrice, and asked for an exit at prices
\* below, around and above the entry, in any order, with and without an
\* entry time, before and after the holding limit.
NextExit ==
    \/ EvalTrendRefresh \/ EvalRevRefresh \/ ExitTrendEnter \/ ExitTrendCheck
    \/ ExitRevEnter \/ ExitRevCheck
SpecExit == Construct(FullEnv) /\ [][NextExit]_vars

\* The OnlineLearner on its own, from construction: a few outcomes of every
\* kind (two losses, a loss of nothing, a small and a large profit) fed,
\* trained on and predicted from in any order.  No window of these outcomes
\* has a profit factor of exactly 1.1 or 1.5 or an expected value of exactly
\* 0.002, where the floating-point comparison of the code could fall on
\* either side.
LearnerPnls == {-20, 0, 10, 36}
LearnerEnv ==
    [tickers |-> AllTickers, total_krw |-> AllTotalKrw,
     free_krw |-> AllFreeKrw, free_coin |-> AllFreeCoin, orders |-> BOOLEAN,
     commands |-> AllCommands, midnight |-> BOOLEAN, market |-> BOOLEAN,
     bars_ok |-> SUBSET Symbols, reports |-> BOOLEAN, trend15 |-> {0, 1},
     dry_run |-> {TRUE}, aware |-> FALSE, cap |-> max_positions,
     day_start |-> NoneVal,
     outcomes |-> [n \in 1..MaxFeedback |-> LearnerPnls]]
NextLearner == LearnerFeedback \/ LearnerTrain \/ LearnerPredict
SpecLearner == Construct(LearnerEnv) /\ [][NextLearner]_vars

\* The same with the scheduling of the event loop: the task that
\* __init__ creates for _training_loop (line 40) waits in update_queue.get()
\* and is made ready by every put; a ready task is run after the tasks that
\* were ready before it, so an iteration that can be taken is taken.
\* Nothing obliges a caller to call feedback or predict.
SpecLearnerFair == SpecLearner /\ WF_vars(LearnerTrain)

\* The OnlineLearner fed more outcomes than its window holds: the n-th
\* outcome is n/10000, a loss when n is a multiple of 3, so that every
\* outcome differs from every other; training steps and predictions are
\* interleaved with the feedback in any order.
EvictOutcome(n) == IF n % 3 = 0 THEN 0 - n ELSE n
EvictEnv ==
    [tickers |-> AllTickers, total_krw |-> AllTotalKrw,
     free_krw |-> AllFreeKrw, free_coin |-> AllFreeCoin, orders |-> BOOLEAN,
     commands |-> AllCommands, midnight |-> BOOLEAN, market |-> BOOLEAN,
     bars_ok |-> SUBSET Symbols, reports |-> BOOLEAN, trend15 |-> {0, 1},
     dry_run |-> {TRUE}, aware |-> FALSE, cap |-> max_positions,
     day_start |-> NoneVal,
     outcomes |-> [n \in 1..EvictFeedbacks |-> {EvictOutcome(n)}]]
SpecEvict == Construct(EvictEnv) /\ [][NextLearner]_vars

\* ------------------------------------------------------------------ claims
\* C1: no buy order is submitted for a symbol whose position slot is
\* non-empty; a position appears only by the scan loop's accepted buy for that
\* symbol, in an empty slot; and a recorded position is never replaced by
\* another one (its entry price and entry time stay as they are until the
\* slot is emptied).
C1_OnePositionPerSymbol ==
    [][\A s \in Symbols :
          /\ submitted' = <<"buy", s>> =>
                 ~position[s].held /\ ~position'[s].held
          /\ ~position[s].held /\ position'[s].held =>
                 scanPc = "buy_order" /\ scanIdx = s
          /\ position[s].held /\ position'[s].held =>
                 /\ position'[s].entry_price = position[s].entry_price
                 /\ position'[s].entry_time = position[s].entry_time]_vars

\* C1 witness: a buy is submitted for one symbol while the monitor loop is in
\* the middle of selling the position of another.
C1_BuyDuringSell ==
    \E s \in Symbols :
        /\ submitted = <<"buy", s>>
        /\ \E r \in Symbols \ {s} :
               position[r].held /\ position[r].state = "selling"

\* C2: when the sell order of an exiting position is not accepted, the
\* position is 'active' again once _execute_sell has returned.
C2_FailedSellReverts ==
    [][/\ monPc = "sell_order"
       /\ monPc' \notin {"sell_order", "sell_notify"}
       => /\ position'[monIdx].held
          /\ position'[monIdx].state = "active"]_vars

\* C3: a symbol goes from holding a position to holding none only in the step
\* that follows an accepted sell order for it.
C3_RemovedOnlyBySell ==
    [][\A s \in Symbols :
          position[s].held /\ ~position'[s].held =>
              monPc = "sell_notify" /\ monIdx = s]_vars

\* C4: a buy order is submitted only in a state where the paused flag is
\* clear, and the scan loop is never between the entry gate and an order
\* while the flag is set.
C4_NoBuyWhilePaused ==
    is_paused =>
        /\ submitted[1] # "buy"
        /\ scanPc \notin {"market", "sym", "ticker", "buy_bal", "buy_order"}

\* C4 witness: the flag is set at the entry gate while a symbol is free, out
\* of cooldown and showing an entry signal.
C4_PausedWithEntrySignal ==
    /\ is_paused
    /\ scanPc = "safety"
    /\ \E s \in Symbols :
          /\ ~HasPosition(s)
          /\ ~InCooldown(s, scanNow)
          /\ check_signal(strategies[s], 1000)

\* The scan loop, or the monitor loop, took the step.
ScanMoved == <<scanPc, scanIdx>>' # <<scanPc, scanIdx>>
MonitorMoved == <<monPc, monIdx>>' # <<monPc, monIdx>>
\* The step is the return of an accepted sell order.
SellAccepted == monPc = "sell_order" /\ monPc' = "sell_notify"

\* C5: a risk check made with five or more consecutive losses on the counter
\* leaves the engine halted; a further loss leaves it halted; a winning
\* closed trade (after a resume as after anything else) leaves the counter
\* at 0.
C5_CircuitBreaker ==
    [][/\ scanPc = "safety" /\ ScanMoved
          /\ current_consecutive_losses >= max_consecutive_losses
          => is_paused'
       /\ is_paused /\ SellAccepted => is_paused'
       /\ SellAccepted
          /\ ~SellIsLoss(position[monIdx].entry_price, monTicker)
          => current_consecutive_losses' = 0]_vars

\* C6: with the paused flag set, the monitor loop fetches the price of every
\* position that is 'active', goes on to sell when the evaluator returns an
\* exit reason (it passes the position by only on a failed fetch or on an
\* evaluation without exit reason), and hands the sell order to the gateway.
C6_ExitsWhilePaused ==
    [][is_paused =>
        /\ monPc = "sym" /\ MonitorMoved
           /\ position[monIdx].held /\ position[monIdx].state = "active"
           => monPc' = "ticker" /\ monIdx' = monIdx
        /\ monPc = "ticker" /\ MonitorMoved =>
              IF monPc' = "sell_bal"
              THEN /\ position'[monIdx].state = "selling"
                   /\ monExit' \in {"TL", "SL", "BE", "TS"}
              ELSE \E t \in env.tickers :
                      \/ t = EmptyResult /\ strategies' = strategies
                      \/ /\ t # EmptyResult
                         /\ check_exit_signal(strategies[monIdx],
                                position[monIdx].entry_price, t,
                                position[monIdx].entry_time, clock,
                                env.aware) \in {"none", "raise"}
                         /\ strategies'[monIdx] =
                                check_exit_state(strategies[monIdx],
                                    position[monIdx].entry_price, t,
                                    position[monIdx].entry_time, clock,
                                    env.aware)
        /\ monPc = "sell_bal" /\ monPc' = "sell_order"
           => submitted' = <<"sell", monIdx>>]_vars

\* C6 witness: a sell order is handed to the gateway while the flag is set.
C6_SellSubmittedWhilePaused ==
    is_paused /\ submitted[1] = "sell"

\* C7: the paused flag goes from set to clear only in the step that processes
\* a resume command, and that step leaves the loss counter at 0 and the flag
\* clear.
C7_OnlyResumeClears ==
    [][/\ is_paused /\ ~is_paused' =>
             scanPc = "cmd" /\ sent' = {"resume_ack"}
       /\ sent' = {"resume_ack"} =>
             ~is_paused' /\ current_consecutive_losses' = 0]_vars

\* C7 witness: a resume was just processed in an engine that the daily-loss
\* check had halted.
C7_ResumedAfterHalt ==
    /\ sent = {"resume_ack"}
    /\ ~is_paused
    /\ DailyLossBreach(daily_pnl_pct)

\* C8: a risk check that computes a daily P&L at or below -2% leaves the
\* engine halted; it sends the halt message when the flag was clear, and a
\* halt message is never sent from a state where the flag is set.
C8_DailyHaltReportedOnce ==
    [][/\ scanPc = "safety_bal" /\ ScanMoved
          /\ DailyLossBreach(daily_pnl_pct')
          => /\ is_paused'
             /\ ~is_paused => sent' = {"halt_daily"}
       /\ "halt_daily" \in sent' =>
             /\ ~is_paused /\ is_paused'
             /\ scanPc = "safety_bal" /\ DailyLossBreach(daily_pnl_pct')
       /\ is_paused => sent' \cap HaltMessages = {}]_vars

\* C8 witness: the daily-loss check has just halted the engine.
C8_HaltedByDailyLoss ==
    sent = {"halt_daily"} /\ is_paused /\ DailyLossBreach(daily_pnl_pct)

\* C9: after a risk check that detects a breach, a halt message has been sent
\* since the flag was last clear; and the return of an accepted sell order
\* sends the exit message.
C9_BreachAndExitReported ==
    [][/\ scanPc = "safety" /\ ScanMoved /\ ~NoBaseline /\ LossStreakBreach
          => haltReported'
       /\ scanPc = "safety_bal" /\ ScanMoved
          /\ DailyLossBreach(daily_pnl_pct')
          => haltReported'
       /\ SellAccepted => sent' = {"sell"}]_vars

\* C10: the return of an accepted sell order (a) puts the realized return on
\* the tuner's feedback queue and (b) updates the loss counter; the end of
\* _execute_sell after it (c) clears the position and (d) records the exit
\* time.
C10_SellBookkeeping ==
    [][/\ SellAccepted =>
             /\ Len(update_queue') = Len(update_queue) + 1
             /\ current_consecutive_losses' =
                    LossesAfterSell(current_consecutive_losses,
                                    position[monIdx].entry_price, monTicker)
       /\ monPc = "sell_notify" /\ MonitorMoved =>
             /\ ~position'[monIdx].held
             /\ last_sell_time'[monIdx] = clock]_vars

\* C11: when a buy order is submitted for a symbol that was sold before, at
\* least 300 seconds have passed since the exit time recorded for it.
C11_CooldownRespected ==
    \A s \in Symbols :
        submitted = <<"buy", s>> /\ last_sell_time[s] # NoneVal =>
            (clock - last_sell_time[s]) * TickSeconds >= CooldownSeconds

\* C11 witness: a symbol is bought again after its cooldown, in a scan
\* iteration whose timestamp is older than the clock.
C11_RebuyAfterCooldown ==
    \E s \in Symbols :
        /\ submitted = <<"buy", s>>
        /\ last_sell_time[s] # NoneVal
        /\ scanNow < clock

\* C12: a buy order is submitted only while the market flag says safe, and
\* the scan loop is between the flag test and an order only while it says
\* safe; the step that changes the flag changes no position, no exit time
\* and nothing of the monitor loop; a held position changes only in a step
\* of the monitor loop; and with the flag unsafe the monitor loop fetches
\* the price of every 'active' position, goes on to sell on an exit reason
\* and hands the sell order to the gateway.
C12_UnsafeMarketOnlyBlocksEntries ==
    [][/\ submitted'[1] = "buy" => is_market_safe'
       /\ scanPc' \in {"ticker", "buy_bal", "buy_order"} => is_market_safe'
       /\ is_market_safe' # is_market_safe =>
             /\ position' = position
             /\ last_sell_time' = last_sell_time
             /\ monVars' = monVars
             /\ submitted' = NoOrder
       /\ ~MonitorMoved =>
             \A s \in Symbols : position[s].held => position'[s] = position[s]
       /\ ~is_market_safe =>
             /\ monPc = "sym" /\ MonitorMoved
                /\ position[monIdx].held /\ position[monIdx].state = "active"
                => monPc' = "ticker" /\ monIdx' = monIdx
             /\ monPc = "ticker" /\ MonitorMoved
                /\ monExit' \in {"TL", "SL", "BE", "TS"}
                => monPc' = "sell_bal" /\ position'[monIdx].state = "selling"
             /\ monPc = "sell_bal" /\ monPc' = "sell_order"
                => submitted' = <<"sell", monIdx>>]_vars

\* C12 witness: a sell order is handed to the gateway while the market flag
\* says unsafe and another symbol is free to be bought.
C12_SellWhileUnsafe ==
    /\ ~is_market_safe
    /\ submitted[1] = "sell"
    /\ \E s \in Symbols : ~HasPosition(s) /\ ~InCooldown(s, scanNow)

\* C13: the number of symbols that hold a position never exceeds the cap;
\* between the slot count of the buy path and the return of its order the
\* number of held positions is at most the count taken, which is below the
\* cap; and the number grows only in the step in which a buy order returns.
C13_PositionCap ==
    [][LET held == {s \in Symbols : position[s].held}
           heldAfter == {s \in Symbols : position'[s].held}
       IN  /\ Cardinality(heldAfter) <= env.cap
           /\ scanPc' \in {"buy_bal", "buy_order"} =>
                 /\ Cardinality(heldAfter) <= scanActive'
                 /\ scanActive' < env.cap
           /\ Cardinality(heldAfter) > Cardinality(held) =>
                 /\ scanPc = "buy_order"
                 /\ Cardinality(heldAfter) = Cardinality(held) + 1]_vars

\* C13 witness: every slot is taken while the scan loop holds the price of a
\* free symbol that shows an entry signal.
C13_CapReachedWithEntrySignal ==
    /\ Cardinality({s \in Symbols : position[s].held}) = env.cap
    /\ scanPc = "ticker"
    /\ ~position[scanIdx].held
    /\ check_signal(strategies[scanIdx], 1000)

\* C14: in the step in which the gateway refuses a buy order for a symbol,
\* no position record is created and none changes, no exit time is
\* recorded, no message is sent, and the scan loop leaves the symbol; a buy
\* order is always for the symbol the scan loop is at, and within one scan
\* iteration the loop never goes back to an earlier symbol, so the symbol
\* gets no second order in the iteration.
C14_FailedBuyLeavesEmpty ==
    [][/\ submitted'[1] = "buy_refused" =>
             /\ scanPc = "buy_order" /\ scanIdx = submitted'[2]
             /\ ~position'[scanIdx].held
             /\ position' = position
             /\ last_sell_time' = last_sell_time
             /\ sent' = {}
             /\ \/ scanPc' = "top"
                \/ scanPc' = "sym" /\ scanIdx' > scanIdx
       /\ submitted'[1] = "buy" =>
             scanPc' = "buy_order" /\ submitted'[2] = scanIdx'
       /\ scanPc \in {"sym", "ticker", "buy_bal", "buy_order"}
          /\ scanPc' \in {"sym", "ticker", "buy_bal", "buy_order"}
          => scanIdx' >= scanIdx]_vars

\* C14 witness: the gateway refused a buy order for a symbol that is not the
\* last of the scan iteration.
C14_BuyRefusedMidScan ==
    /\ submitted[1] = "buy_refused"
    /\ scanPc = "sym"
    /\ scanIdx > submitted[2]

\* C15: a risk check whose balance fetch returned leaves either the risk
\* state as it was (daily P&L, paused flag, no halt message: the failed
\* fetch) or the daily P&L computed from a balance the venue reported; and a
\* step in which a ticker fetch returned changes no position unless it
\* starts a sale on an exit reason, and changes no counter.
C15_FailedFetchChangesNothing ==
    [][/\ scanPc = "safety_bal" /\ ScanMoved =>
             \/ /\ daily_pnl_pct' = daily_pnl_pct
                /\ is_paused' = is_paused
                /\ sent' \cap HaltMessages = {}
             \/ \E b \in FetchTotalKrw \ {EmptyResult} :
                   daily_pnl_pct' = [num |-> b - start_of_day_balance,
                                     den |-> start_of_day_balance]
       /\ \/ scanPc = "ticker" /\ ScanMoved
          \/ monPc = "ticker" /\ MonitorMoved
          => /\ \/ position' = position
                \/ monPc' = "sell_bal" /\ monExit' \in {"TL", "SL", "BE", "TS"}
             /\ current_consecutive_losses' = current_consecutive_losses
             /\ daily_pnl_pct' = daily_pnl_pct
             /\ last_sell_time' = last_sell_time]_vars

\* C16: an exception caught while the position of a symbol is checked leaves
\* the monitor loop at the next symbol of the same cycle (at the top of the
\* loop after the last symbol); an exception caught while a symbol is
\* scanned for an entry leaves the scan loop at the next symbol likewise;
\* the other loop is where it was; and neither loop is ever ended while the
\* engine runs.
C16_FailureIsolation ==
    [][/\ \A s \in Symbols :
             <<"exit", s>> \in caught' =>
                /\ monPc = "ticker" /\ monIdx = s
                /\ IF s < NSym THEN monPc' = "sym" /\ monIdx' = s + 1
                               ELSE monPc' = "top"
                /\ scanVars' = scanVars
       /\ \A s \in Symbols :
             <<"entry", s>> \in caught' =>
                /\ scanPc = "ticker" /\ scanIdx = s
                /\ IF s < NSym THEN scanPc' = "sym" /\ scanIdx' = s + 1
                               ELSE scanPc' = "top"
                /\ monVars' = monVars
       /\ is_running' => scanPc' # "done" /\ monPc' # "done"]_vars

\* C16 witness: the exit check of the first symbol raised and was caught
\* while the next symbol holds a position that is still to be checked in
\* the same cycle.
C16_RaisedBeforeHeldSymbol ==
    /\ <<"exit", 1>> \in caught
    /\ monPc = "sym" /\ monIdx = 2
    /\ position[2].held /\ position[2].state = "active"

\* C17: neither loop is ended while an order call of it is in flight or
\* while the result of an accepted order is still to be applied to the
\* position.
C17_NoOrderAbandoned ==
    [][/\ monPc' \in {"done", "cancelled"} /\ monPc' # monPc
          => monPc \notin {"sell_order", "sell_notify"}
       /\ scanPc' = "done" /\ scanPc' # scanPc
          => scanPc # "buy_order"]_vars

\* C18: when the monitor loop's price fetch returns for a position that has
\* been held for ten minutes or more, either the fetch failed and nothing
\* was evaluated, or the evaluation returns the time-limit exit and the
\* engine goes on to sell.
C18_TimeLimitExit ==
    [][/\ monPc = "ticker" /\ MonitorMoved
       /\ position[monIdx].held
       /\ (clock - position[monIdx].entry_time) * TickSeconds
             >= max_holding_minutes * 60
       => \/ /\ monPc' = "sell_bal" /\ monExit' = "TL"
             /\ position'[monIdx].state = "selling"
          \/ /\ caught' = {} /\ monPc' # "sell_bal"
             /\ position' = position]_vars

\* C19: a direct entry check of the trend evaluator whose price, moving
\* average, oscillator and trend conditions hold returns True when the volume
\* ratio is 1.3 or more and no override is passed, False when the ratio is
\* 1.1 and no override is passed, and True when the loosened override is
\* passed.
C19_EntryWithOverride ==
    [][LET st == evalTrend
           out == evalOut'
       IN  /\ out.call = "trend_entry" /\ out # evalOut
           /\ st.rsi # NoneVal /\ st.vwap # NoneVal /\ st.is_15m_uptrend
           /\ out.price > st.vwap /\ st.ma_5 > st.ma_20
           /\ 45 < st.rsi /\ st.rsi < 65
           => /\ out.ai = "absent" /\ st.volume_ratio_x10 >= 13
                 => out.result = "True"
              /\ out.ai = "absent" /\ st.volume_ratio_x10 = 11
                 => out.result = "False"
              /\ out.ai = "loosened" => out.result = "True"]_vars

\* C20: while an evaluator has computed no indicators, its entry check
\* returns False and its exit check returns no exit; and an entry check that
\* returns False leaves the evaluator as it was.
C20_PreWarm ==
    [][LET out == evalOut'
       IN  /\ out # evalOut /\ out.call \in {"trend_entry", "trend_exit"}
              /\ evalTrend.rsi = NoneVal
              => out.result = IF out.call = "trend_entry" /\ out.ai = "absent"
                              THEN "False"
                              ELSE IF out.call = "trend_exit" THEN "none"
                              ELSE out.result
           /\ out # evalOut /\ out.call \in {"rev_entry", "rev_exit"}
              /\ evalRev.rsi = NoneVal
              => out.result = IF out.call = "rev_entry" THEN "False"
                              ELSE "none"
           /\ out # evalOut /\ out.call = "trend_entry"
              /\ out.result = "False" => evalTrend' = evalTrend
           /\ out # evalOut /\ out.call = "rev_entry"
              /\ out.result = "False" => evalRev' = evalRev]_vars

\* C21: whenever predict has just answered from a window whose expected
\* value is negative or whose profit factor is below 1.1, the suggested k
\* is not below the current k and not above 0.85, the suggested
\* rsi_buy_threshold is not above the current one and not below 20, and the
\* suggested volume_multiplier is not below the current one and not above
\* 1.8.
C21_TighteningMonotone ==
    (suggested # NoSuggestion /\ TightenRegime(recent_pnl)) =>
        /\ suggested.k_x100 >= current_params.k_x100
        /\ suggested.k_x100 <= 85
        /\ suggested.rsi_buy_threshold <= current_params.rsi_buy_threshold
        /\ suggested.rsi_buy_threshold >= 20
        /\ suggested.volume_multiplier_x10 >=
               current_params.volume_multiplier_x10
        /\ suggested.volume_multiplier_x10 <= 18

\* predict has answered from a window of two profits and a loss whose
\* expected value is not negative and whose profit factor is below 1.1.
C21_TightenedOnProfitFactor ==
    /\ suggested # NoSuggestion
    /\ Len(recent_pnl) = 3
    /\ ExpectedValue(recent_pnl).num >= 0
    /\ TightenRegime(recent_pnl)
    /\ suggested.k_x100 = 55

\* C22: a call of predict leaves current_params and the window as they
\* were, and a call that follows another call of predict with no feedback
\* and no training step between them returns the same TradeParams.
C22_PredictIdempotent ==
    [][predictCalls' > predictCalls =>
          /\ current_params' = current_params
          /\ recent_pnl' = recent_pnl
          /\ (predictCalls > 0 => suggested' = suggested)]_vars

\* predict has answered twice in a row from a window that is not empty,
\* with parameters that differ from the stored ones.
C22_PredictedTwice ==
    /\ predictCalls = 2
    /\ recent_pnl # <<>>
    /\ suggested # current_params

\* C23: the window never holds more than 50 outcomes; it always holds, in
\* order of arrival, the last 50 (or all, when fewer) of the outcomes the
\* training loop has taken from the queue, and a prediction is the
\* adjustment computed from exactly those.
C23_Trained == SubSeq(arrived, 1, Len(arrived) - Len(update_queue))
C23_Last50(s) == SubSeq(s, Max(1, Len(s) - 49), Len(s))
C23_Eviction ==
    /\ Len(recent_pnl) <= 50
    /\ recent_pnl = C23_Last50(C23_Trained)
    /\ suggested # NoSuggestion =>
           suggested = adjust_params_based_on_performance(
                           C23_Last50(C23_Trained), current_params)

\* Every outcome has been fed and trained on, the oldest ones have been
\* evicted, and predict has answered.
C23_SixtyFed ==
    /\ Len(arrived) = EvictFeedbacks
    /\ update_queue = <<>>
    /\ Len(recent_pnl) = 50
    /\ Head(recent_pnl) = arrived[Len(arrived) - 49]
    /\ Head(recent_pnl) # arrived[1]
    /\ suggested # NoSuggestion

\* C24: where a day begins after the engine was started, a scan iteration goes to
\* the daily reset exactly when it is the first iteration whose now is on
\* the new day, and the reset leaves the loss counter and the daily P&L at
\* zero and a baseline in place.
C24_DailyResetOnce ==
    [][/\ (/\ scanPc = "cmd" /\ scanPc' # "cmd"
           /\ env.day_start # NoneVal /\ newDaySeen # "at_start") =>
              ((scanPc' = "daily") <=>
                   (OnNewDay(scanNow) /\ newDaySeen = "no"))
       /\ (/\ scanPc = "daily" /\ scanPc' # "daily"
           /\ newDaySeen # "at_start") =>
              /\ current_consecutive_losses' = 0
              /\ daily_pnl_pct' = ZeroPnl
              /\ start_of_day_balance' > 0]_vars

\* C25: while the loss counter stands at the ceiling or above, with a
\* baseline in place for the risk check, no step submits a buy order.
C25_NoBuyAtCeiling ==
    [][/\ current_consecutive_losses >= max_consecutive_losses
       /\ start_of_day_balance > 0
       => submitted'[1] # "buy"]_vars

\* C26: an accepted sell order whose net P&L (0.1 % of fees deducted) is
\* negative adds one to the loss counter, any other accepted sell sets it
\* to 0, and every other step that changes the counter is the processing
\* of a resume command or a baseline reset of start() or of the day.
C26_LossCounterWriters ==
    [][IF SellAccepted
       THEN current_consecutive_losses' =
                IF SellIsLoss(position[monIdx].entry_price, monTicker)
                THEN current_consecutive_losses + 1
                ELSE 0
       ELSE current_consecutive_losses' # current_consecutive_losses =>
                \/ scanPc = "cmd" /\ "resume_ack" \in sent'
                \/ scanPc \in {"init", "daily"}]_vars

\* A second losing trade in a row has just been closed.
C26_SecondLossCounted ==
    /\ monPc = "sell_notify"
    /\ SellIsLoss(position[monIdx].entry_price, monTicker)
    /\ current_consecutive_losses = 2

\* C27: an exit evaluation of the trend evaluator returns the time limit
\* when the holding time is reached, else the stop-loss when net P&L is at
\* or below minus the stop-loss fraction, else breakeven when the peak has
\* reached half the take-profit trigger and net P&L is under 0.05 %, else
\* the trailing stop when it is armed and the price is the callback
\* fraction or more under the peak; an exit evaluation of the reversal
\* evaluator with net P&L at or below minus its stop-loss fraction returns
\* the stop-loss.
C27_ExitPriority ==
    [][LET out == evalOut'
           st == evalTrend
           e == EvalEntryPrice
           net == NetE(e, out.price)
           top == Max(st.max_price, out.price)
           tl == /\ out.entry_time # NoneVal
                 /\ (out.now - out.entry_time) * TickSeconds
                        >= max_holding_minutes * 60
           sl == net <= -SlE(st, e)
           be == top * 20000 >= 20000 * e + TpE(st, e) /\ net < 5 * e
           ts == /\ st.is_trailing \/ net >= TpE(st, e)
                 /\ (top - out.price) * e * 100000
                        >= CallbackE10(st, e) * top
       IN  /\ PositionOpen("trend") /\ out.call = "trend_exit" =>
                 /\ tl => out.result = "TL"
                 /\ ~tl /\ sl => out.result = "SL"
                 /\ ~tl /\ ~sl /\ be => out.result = "BE"
                 /\ ~tl /\ ~sl /\ ~be /\ ts => out.result = "TS"
           /\ PositionOpen("rev") /\ out.call = "rev_exit"
              /\ RevNetE(e, out.price) * evalRev.stop_loss_pct.den
                    <= -evalRev.stop_loss_pct.num * 1000 * e
              => out.result = "REV_SL"]_vars

\* The stop-loss was returned by an evaluation in which the breakeven and
\* the trailing condition held as well: the peak was 1010, the trailing
\* stop armed and the price 997.
C27_StopLossOverBreakevenAndTrailing ==
    /\ evalOut.call = "trend_exit"
    /\ evalOut.result = "SL"
    /\ evalOut.price = 997
    /\ evalTrend.is_trailing
    /\ evalTrend.max_price = 1010

\* C28: an exit evaluation on an open position, made before the holding
\* limit at a price that is the highest since the entry and with net P&L at
\* or above the take-profit fraction, returns no exit, for the trend
\* evaluator (trailing stop not armed before) and for the reversal
\* evaluator; and a trailing-stop or take-profit exit is returned only at
\* a price under the highest since the entry.
C28_TakeProfitOnlyArms ==
    [][LET out == evalOut'
           e == EvalEntryPrice
       IN  /\ /\ PositionOpen("trend") /\ out.call = "trend_exit"
              /\ ~HoldingExceeded(out.entry_time, out.now)
              /\ ~evalTrend.is_trailing
              /\ out.price >= evalOut.peak
              /\ NetE(e, out.price) >= TpE(evalTrend, e)
              => out.result = "none" /\ evalTrend'.is_trailing
           /\ /\ PositionOpen("rev") /\ out.call = "rev_exit"
              /\ out.price >= evalOut.peak
              /\ RevNetE(e, out.price) * evalRev.take_profit_pct.den
                    >= evalRev.take_profit_pct.num * 1000 * e
              => out.result = "none"
           /\ /\ PositionOpen("trend") \/ PositionOpen("rev")
              /\ out.call \in {"trend_exit", "rev_exit"}
              /\ out.result \in {"TS", "REV_TP"}
              => out.price < evalOut.peak]_vars

\* C29: an exit evaluation on an open position, made before the holding
\* limit with net P&L above the stop-loss level, returns the breakeven
\* exit when an earlier evaluation saw the price at the minor-profit
\* threshold or above and net P&L is now back near zero: for the trend
\* evaluator, peak at or above entry * (1 + take-profit trigger / 2) and
\* net P&L under 0.05 %; for the reversal evaluator, net P&L of the peak
\* at or above 0.6 % and net P&L now at or under 0.3 %.
C29_BreakevenEffective ==
    [][LET out == evalOut'
           e == EvalEntryPrice
       IN  /\ /\ PositionOpen("trend") /\ out.call = "trend_exit"
              /\ ~HoldingExceeded(out.entry_time, out.now)
              /\ evalOut.peak * 20000 >= 20000 * e + TpE(evalTrend, e)
              /\ NetE(e, out.price) < 5 * e
              /\ NetE(e, out.price) > -SlE(evalTrend, e)
              => out.result = "BE"
           /\ /\ PositionOpen("rev") /\ out.call = "rev_exit"
              /\ RevNetE(e, evalOut.peak) >= 6 * e
              /\ RevNetE(e, out.price) <= 3 * e
              /\ RevNetE(e, out.price) * evalRev.stop_loss_pct.den
                    > -evalRev.stop_loss_pct.num * 1000 * e
              => out.result = "REV_BE"]_vars

\* C30: an exit evaluation of the trend evaluator on an open position, made
\* before the holding limit at a price that is the callback fraction or
\* more under the highest price since the entry, with net P&L at or above
\* 0.05 % (so above the breakeven and the stop-loss level): when an earlier
\* evaluation saw net P&L at or above the take-profit trigger, it returns
\* the trailing-stop exit; when none did, it does not.
C30_TrailingSequence ==
    [][LET out == evalOut'
           e == EvalEntryPrice
           retraced == (evalOut.peak - out.price) * e * 100000
                          >= CallbackE10(evalTrend, e) * evalOut.peak
           armed == NetE(e, evalOut.peak) >= TpE(evalTrend, e)
       IN  /\ PositionOpen("trend") /\ out.call = "trend_exit"
           /\ ~HoldingExceeded(out.entry_time, out.now)
           /\ retraced
           /\ NetE(e, out.price) >= 5 * e
           => IF armed THEN out.result = "TS" ELSE out.result # "TS"]_vars

\* The trailing stop was returned at 1007 after a peak of 1010, with net
\* P&L still at 0.6 %.
C30_TrailingExitAfterPeak ==
    /\ evalOut.call = "trend_exit"
    /\ evalOut.result = "TS"
    /\ evalOut.peak = 1010
    /\ evalOut.price = 1007

\* C31: whenever predict has just answered from a window whose profit factor
\* is above 1.5 and whose expected value is above 0.002, the suggested k is
\* not above the current k, the suggested rsi_buy_threshold is not below the
\* current one, and the suggested volume_multiplier is not above the current
\* one.
C31_LooseningMonotone ==
    (suggested # NoSuggestion /\ LoosenRegime(recent_pnl)
        /\ ~TightenRegime(recent_pnl)) =>
        /\ suggested.k_x100 <= current_params.k_x100
        /\ suggested.rsi_buy_threshold >= current_params.rsi_buy_threshold
        /\ suggested.volume_multiplier_x10 <=
               current_params.volume_multiplier_x10

\* C32: the outcomes in the window followed by the outcomes on the queue are
\* always the outcomes passed to feedback, in the order they were passed;
\* the n-th outcome passed to feedback is eventually in the window; from
\* some moment on the queue stays empty (the outcomes passed are finitely
\* many); and a call of predict answers from the outcomes the training loop
\* has taken so far, not from those still on the queue.
C32_FeedbackReachesWindow ==
    /\ [](recent_pnl \o update_queue = arrived)
    /\ \A n \in 1..MaxFeedback :
          (Len(arrived) >= n) ~> (Len(recent_pnl) >= n)
    /\ <>[](update_queue = <<>>)
    /\ [][predictCalls' > predictCalls =>
             suggested' = adjust_params_based_on_performance(
                              SubSeq(arrived, 1,
                                     Len(arrived) - Len(update_queue)),
                              InitialParams)]_vars

\* predict has answered while an outcome passed to feedback was still on the
\* queue, from a window of two different outcomes, and the answer is not the
\* one that all the outcomes passed would give.
C32_PredictedBeforeTraining ==
    /\ suggested # NoSuggestion
    /\ update_queue # <<>>
    /\ Len(recent_pnl) = 2
    /\ recent_pnl[1] # recent_pnl[2]
    /\ suggested # adjust_params_based_on_performance(arrived, InitialParams)

\* C33: a call of ReversalStrategy.check_signal returns True exactly when
\* the evaluator has been refreshed, the price is not above bb_lower * 1.002,
\* the oscillator is not above the threshold in force (the suggestion's
\* rsi_buy_threshold when one is passed, the evaluator's rsi_threshold
\* otherwise) and the oscillator is above its previous value; the call
\* leaves rsi_threshold as it was.
C33_ReversalEntry ==
    [][(evalOut' # evalOut /\ evalOut'.call = "rev_entry") =>
          /\ (evalOut'.result = "True") <=>
                 /\ evalRev.bb_lower # NoneVal
                 /\ evalRev.rsi # NoneVal
                 /\ evalOut'.price * 1000 <= evalRev.bb_lower * 1002
                 /\ evalRev.rsi <=
                        (IF evalOut'.override = NoneVal
                         THEN evalRev.rsi_threshold
                         ELSE evalOut'.override)
                 /\ evalRev.rsi > evalRev.prev_rsi
          /\ evalRev'.rsi_threshold = evalRev.rsi_threshold]_vars

\* An entry check at a low price, with a suggestion that raises the
\* threshold, on an oscillator that is under the threshold and not above its
\* previous value, has returned False.
C33_LowButNotRising ==
    /\ evalOut.call = "rev_entry"
    /\ evalOut.result = "False"
    /\ evalOut.price = 990
    /\ evalOut.override = 30
    /\ evalRev.rsi = 28
    /\ evalRev.prev_rsi = 28

C35_BuyKeepsSafe ==
    [][(scanPc = "safety_bal" /\ scanPc' # "safety_bal") =>
          /\ ~DailyLossBreach(daily_pnl_pct')
          /\ ~is_paused']_vars

\* C36: the paused flag is clear with a daily P&L at or below -2% on record
\* only between the processing of a resume command and the risk check of the
\* same scan iteration (the scan loop is at the daily reset, at the risk
\* check or at its balance fetch), no buy order is submitted in such a
\* state, and when the risk check then computes a daily P&L at or below -2%
\* again it sets the flag, sends the halt message and ends the iteration
\* before any entry is evaluated.
C36_AtOrBelowCeiling(pnl) == pnl.num * 100 <= -2 * pnl.den
C36_ResumeRehalts ==
    [][/\ (~is_paused' /\ C36_AtOrBelowCeiling(daily_pnl_pct')) =>
             /\ scanPc' \in {"daily", "safety", "safety_bal"}
             /\ submitted'[1] # "buy"
             /\ \/ ~is_paused /\ C36_AtOrBelowCeiling(daily_pnl_pct)
                \/ sent' = {"resume_ack"}
       /\ (sent' = {"resume_ack"} /\ C36_AtOrBelowCeiling(daily_pnl_pct)) =>
             /\ ~is_paused'
             /\ scanPc' \in {"daily", "safety"}
       /\ (/\ ~is_paused /\ C36_AtOrBelowCeiling(daily_pnl_pct)
           /\ scanPc = "safety_bal" /\ ScanMoved
           /\ C36_AtOrBelowCeiling(daily_pnl_pct')) =>
             /\ is_paused'
             /\ sent' = {"halt_daily"}
             /\ scanPc' = "top"]_vars

\* A resume command has been processed in an engine halted at a daily P&L of
\* -2%, the risk check of the same iteration is at its balance fetch, and a
\* symbol is free, out of cooldown and showing an entry signal.
C36_ResumedInBreachBeforeCheck ==
    /\ ~is_paused
    /\ scanPc = "safety_bal"
    /\ C36_AtOrBelowCeiling(daily_pnl_pct)
    /\ \E s \in Symbols :
          /\ ~HasPosition(s)
          /\ ~InCooldown(s, scanNow)
          /\ check_signal(strategies[s], 1000)

\* C37: the monitor loop goes to the exit check of a symbol only when the
\* symbol holds a position that is not 'selling'; a position becomes
\* 'selling' only from 'active', by the exit check of its own symbol; a sell
\* order is submitted only by _execute_sell for the symbol it is selling,
\* whose position is held and 'selling' before and after the step; while a
\* sell order is in flight or its exit message is being sent, the monitor
\* loop is at that symbol, whose position is held and 'selling'; and the
\* step that follows an accepted sell empties the slot.
C37_SellSingleShot ==
    [][\A s \in Symbols :
          /\ (monPc = "sym" /\ monPc' = "ticker" /\ monIdx = s) =>
                 position[s].held /\ position[s].state # "selling"
          /\ (position[s].state # "selling"
              /\ position'[s].state = "selling") =>
                 /\ position[s].held /\ position[s].state = "active"
                 /\ monPc = "ticker" /\ monIdx = s
          /\ submitted' = <<"sell", s>> =>
                 /\ monPc = "sell_bal" /\ monIdx = s
                 /\ monPc' = "sell_order" /\ monIdx' = s
                 /\ position[s].held /\ position[s].state = "selling"
                 /\ position'[s] = position[s]
          /\ (monPc' \in {"sell_order", "sell_notify"} /\ monIdx' = s) =>
                 position'[s].held /\ position'[s].state = "selling"
          /\ (monPc = "sell_notify" /\ MonitorMoved /\ monIdx = s) =>
                 ~position'[s].held]_vars

\* A sell order has just been handed to the gateway for one symbol while the
\* position of another is still 'selling' after a refused sell order and the
\* scan loop is in the middle of an iteration.
C37_SellBesideStuckPosition ==
    \E s \in Symbols, r \in Symbols :
        /\ s # r
        /\ submitted = <<"sell", s>>
        /\ position[r].held /\ position[r].state = "selling"
        /\ scanPc \in {"sym", "ticker", "buy_bal", "buy_order"}

\* ------------------------------------------------------------------- C38
\* The steps of the engine that C38 speaks of, for the symbol s.
\* A sell that succeeded: _execute_sell got an order back and has sent the
\* exit message (lines 280-290); this step runs lines 292-294.
C38_SellSucceeds(s) == monPc = "sell_notify" /\ monIdx = s
\* A sell that failed: create_order returned the empty dict (line 280), or
\* _execute_sell raised and its handler put the position back (296-299).
C38_SellFails(s) ==
    \/ monPc = "sell_order" /\ monIdx = s /\ monPc' # "sell_notify"
    \/ caught' = {<<"sell", s>>}
\* check_signal returned True for s in this step (lines 110-118).
C38_EntrySignal(s) ==
    /\ scanPc = "ticker" /\ scanIdx = s
    /\ \E t \in env.tickers \ {EmptyResult} :
          /\ check_signal(strategies[s], t)
          /\ strategies'[s].max_price = t
\* The trailing state of s is reset in this step.
C38_Reset(s) ==
    \/ strategies[s].is_trailing /\ ~strategies'[s].is_trailing
    \/ strategies'[s].max_price < strategies[s].max_price
\* What C38 says of the mark across steps, of the flag and of the reset.
C38_MarkFlagReset(s) ==
    /\ (position[s].held /\ position'[s].held) =>
           /\ strategies'[s].max_price >= strategies[s].max_price
           /\ strategies[s].is_trailing => strategies'[s].is_trailing
    /\ C38_Reset(s) => (C38_SellSucceeds(s) \/ C38_EntrySignal(s))
    /\ C38_SellFails(s) =>
           /\ strategies'[s] = strategies[s]
           /\ position'[s].held
    /\ (monPc' = "sell_notify" /\ monPc # "sell_notify") => sent' = {"sell"}

\* C38: while a position is open the high-water mark max_price never
\* decreases across exit evaluations and is at least the highest price passed
\* to an exit evaluation since the entry; an armed trailing stop stays armed
\* until the state is reset; the reset happens only on a successful sell or
\* on a True entry signal for the symbol, never on a failed sell.
C38_TrailingState ==
    [][\A s \in Symbols :
          /\ C38_MarkFlagReset(s)
          /\ position'[s].held =>
                 strategies'[s].max_price >= highest_passed'[s]]_vars

====
